---------------------------- MODULE Spec2Model ----------------------------
(***************************************************************************)
(* Dominant-colour extraction of the colour palette application:           *)
(* extractFromImageElement (pixel sampler) and kMeansClustering (k-means   *)
(* engine) of src/src/types/index.ts, the promise and the events of        *)
(* extractColorsFromImage, the palette state of usePalette and App         *)
(* (src/src/App.tsx) and the shareable URL (src/src/utils/export.ts).      *)
(*                                                                         *)
(* Numbers.  A centroid is a JavaScript number triple.  Every centroid the *)
(* code builds is a copy of an integer pixel, a mean of integer pixels or  *)
(* a product Math.random() * 255, so it is modelled as an exact rational   *)
(* triple with a common denominator, [v |-> <<r, g, b>>, d |-> den], kept  *)
(* in lowest terms so that equal values are equal records.  Distances are  *)
(* compared through their squares (Math.sqrt is monotone).                 *)
(***************************************************************************)
EXTENDS Integers, Sequences, FiniteSets, TLC

\* ------------------------------------------------------------------ bounds
MaxPixels == 4          \* longest pixel list handed to kMeansClustering
MaxK == 3               \* largest cluster count k
MaxVisited == 2         \* visited pixels of an image that are chosen freely
MaxEdits == 2           \* palette operations other than addColumn on one palette
MaxColumns == 5         \* largest palette that receives every operation
MaxShared == 2          \* longest colour list handed to generateShareableURL
MaxClock == 1           \* last value of Date.now(), the first being 0
MaxEffects == 2         \* most runs of the effect of useKeyboard

\* ------------------------------------------------------- program constants
DefaultMaxIterations == 20
maxSize == 200
AlphaThreshold == 128
DarkThreshold == 30
LightThreshold == 735
ByteStride == 16
ChannelMax == 255
DefaultCount == 5
ColumnLimit == 10
HueShiftMax == 180
ShiftMax == 50
FullTurn == 360

\* ------------------------------------------------------------- arithmetic
\* The greatest common divisor of the denominator d >= 1 and the three
\* numerators.
CommonDivisor(v, d) ==
    CHOOSE g \in 1..d :
        /\ d % g = 0 /\ v[1] % g = 0 /\ v[2] % g = 0 /\ v[3] % g = 0
        /\ \A h \in (g + 1)..d :
              ~(d % h = 0 /\ v[1] % h = 0 /\ v[2] % h = 0 /\ v[3] % h = 0)

\* The rational triple v / d in lowest terms.
Norm(v, d) ==
    LET g == CommonDivisor(v, d)
    IN  [v |-> <<v[1] \div g, v[2] \div g, v[3] \div g>>, d |-> d \div g]

\* [...pixels[idx]]: the centroid that is a copy of an integer pixel.
CopyOf(pixel) == [v |-> pixel, d |-> 1]

\* A rational number num / den, den > 0.
Rat(num, den) == [num |-> num, den |-> den]
RatLess(x, y) == x.num * y.den < y.num * x.den

\* colorDistance(c1, c2) squared, as a rational.  The code returns the square
\* root; every use compares two distances, or a distance with 1, and the
\* square root is monotone.
colorDistanceSq(c1, c2) ==
    LET dr == c1.v[1] * c2.d - c2.v[1] * c1.d
        dg == c1.v[2] * c2.d - c2.v[2] * c1.d
        db == c1.v[3] * c2.d - c2.v[3] * c1.d
    IN  Rat(dr * dr + dg * dg + db * db, (c1.d * c2.d) * (c1.d * c2.d))

\* ------------------------------------------------------------- assignment
\* The scan `for (let i = 0; i < k; i++)` with minDist starting at Infinity:
\* inf says that minDist is still Infinity.  Cluster indices are 0-based as
\* in the code; centroids[i] of the code is cents[i + 1].
RECURSIVE ClosestScan(_, _, _, _, _, _, _)
ClosestScan(pixel, cents, kk, i, inf, minDist, closest) ==
    IF i >= kk THEN closest
    ELSE LET dist == colorDistanceSq(CopyOf(pixel), cents[i + 1])
         IN  IF inf \/ RatLess(dist, minDist)
             THEN ClosestScan(pixel, cents, kk, i + 1, FALSE, dist, i)
             ELSE ClosestScan(pixel, cents, kk, i + 1, inf, minDist, closest)

\* Mutant: the comparison of the scan is flipped (dist > minDist), so that no
\* centroid ever beats the initial Infinity and cluster 0 always wins.
closestClusterFlipped(pixel, cents, kk) ==
    LET RECURSIVE Scan(_, _, _, _)
        Scan(i, inf, minDist, closest) ==
            IF i >= kk THEN closest
            ELSE LET dist == colorDistanceSq(CopyOf(pixel), cents[i + 1])
                 IN  IF ~inf /\ RatLess(minDist, dist)
                     THEN Scan(i + 1, FALSE, dist, i)
                     ELSE Scan(i + 1, inf, minDist, closest)
    IN  Scan(0, TRUE, Rat(0, 1), 0)

\* Mutant: the scan compares with <= (dist <= minDist), so that among equal
\* distances the last centroid wins.
closestClusterLastWins(pixel, cents, kk) ==
    LET RECURSIVE Scan(_, _, _, _)
        Scan(i, inf, minDist, closest) ==
            IF i >= kk THEN closest
            ELSE LET dist == colorDistanceSq(CopyOf(pixel), cents[i + 1])
                 IN  IF inf \/ ~RatLess(minDist, dist)
                     THEN Scan(i + 1, FALSE, dist, i)
                     ELSE Scan(i + 1, inf, minDist, closest)
    IN  Scan(0, TRUE, Rat(0, 1), 0)

closestCluster(pixel, cents, kk) ==
    ClosestScan(pixel, cents, kk, 0, TRUE, Rat(0, 1), 0)

\* clusters after `for (const pixel of pixels) clusters[closest].push(pixel)`.
RECURSIVE AssignFrom(_, _, _, _, _)
AssignFrom(pix, cents, kk, j, clusters) ==
    IF j > Len(pix) THEN clusters
    ELSE LET c == closestCluster(pix[j], cents, kk) + 1
         IN  AssignFrom(pix, cents, kk, j + 1,
                        [clusters EXCEPT ![c] = Append(@, pix[j])])

AssignPixels(pix, cents, kk) ==
    AssignFrom(pix, cents, kk, 1, [i \in 1..kk |-> <<>>])

\* ----------------------------------------------------------------- update
\* clusters[i].reduce(...): the sum of channel ch over the cluster.
RECURSIVE SumChannel(_, _, _)
SumChannel(cluster, ch, j) ==
    IF j > Len(cluster) THEN 0
    ELSE cluster[j][ch] + SumChannel(cluster, ch, j + 1)

\* Mutant: the reducer adds the first channel of a pixel to all three sums.
SumOfFirstChannel(cluster) ==
    <<SumChannel(cluster, 1, 1), SumChannel(cluster, 1, 1), SumChannel(cluster, 1, 1)>>

SumOf(cluster) ==
    <<SumChannel(cluster, 1, 1), SumChannel(cluster, 2, 1), SumChannel(cluster, 3, 1)>>

\* Mutant: the sums are pushed without the division by the cluster size.
MeanNoDivide(cluster) == Norm(SumOf(cluster), 1)

\* [sum[0] / n, sum[1] / n, sum[2] / n] of a non-empty cluster.
Mean(cluster) == Norm(SumOf(cluster), Len(cluster))

\* Mutant: an empty cluster is reseeded with a fixed colour instead of
\* keeping its centroid.
PushedForReseed(cluster, old) ==
    IF Len(cluster) = 0 THEN << [v |-> <<128, 128, 128>>, d |-> 1] >>
    ELSE <<Mean(cluster)>>

\* Mutant: the length check is missing, and the sums of an empty cluster are
\* divided by 0: each channel is 0 / 0.
PushedForDividesAlways(cluster, old) ==
    IF Len(cluster) = 0 THEN << [v |-> <<0, 0, 0>>, d |-> 0] >>
    ELSE <<Mean(cluster)>>

\* What one turn of the loop `for (let i = 0; i < k; i++)` pushes on
\* newCentroids: the old centroid for an empty cluster, the mean otherwise.
PushedFor(cluster, old) ==
    IF Len(cluster) = 0 THEN <<old>> ELSE <<Mean(cluster)>>

RECURSIVE RecalcFrom(_, _, _, _, _)
RecalcFrom(clusters, cents, kk, i, acc) ==
    IF i >= kk THEN acc
    ELSE RecalcFrom(clusters, cents, kk, i + 1,
                    acc \o PushedFor(clusters[i + 1], cents[i + 1]))

newCentroidsOf(clusters, cents, kk) == RecalcFrom(clusters, cents, kk, 0, <<>>)

\* Mutant: some() in place of every(): one centroid that moved by less than
\* 1 ends the loop.
ConvergedSome(cents, newCents) ==
    \E i \in 1..Len(cents) :
        RatLess(colorDistanceSq(cents[i], newCents[i]), Rat(1, 1))

\* centroids.every((centroid, i) => colorDistance(centroid, newCentroids[i]) < 1)
Converged(cents, newCents) ==
    \A i \in 1..Len(cents) :
        RatLess(colorDistanceSq(cents[i], newCents[i]), Rat(1, 1))

\* ---------------------------------------------------------------- seeding
\* Mutant: the first while loop does not stop when every index is used.
SeedCondNoExhaust(cents, used, pix, kk) == Len(cents) < kk

\* The condition of the first while loop.
SeedCond(cents, used, pix, kk) ==
    Len(cents) < kk /\ Cardinality(used) < Len(pix)

\* Mutant: the random channels are scaled by 256 instead of 255.
RandomTriplesScaled256 ==
    { [v |-> <<0, 0, 0>>, d |-> 1],
      [v |-> <<511, 511, 511>>, d |-> 2] }

\* Values [Math.random() * 255, Math.random() * 255, Math.random() * 255] can
\* take: each channel is a number in [0, 255), in general no integer.
RandomTriples ==
    { [v |-> <<0, 0, 0>>, d |-> 1],
      [v |-> <<255, 255, 255>>, d |-> 2],
      [v |-> <<509, 1, 255>>, d |-> 2] }

\* ---------------------------------------------------------- pixel sampler
\* Math.min(maxSize / img.width, maxSize / img.height), as a rational.
scaleOf(w, h) ==
    IF maxSize * h <= maxSize * w THEN Rat(maxSize, w) ELSE Rat(maxSize, h)

\* canvas.width = img.width * scale: the canvas keeps the integer part.
canvasWidth(w, h) == (w * scaleOf(w, h).num) \div scaleOf(w, h).den

\* Mutant: the height is not scaled.
canvasHeightUnscaled(w, h) == h

\* canvas.height = img.height * scale.
canvasHeight(w, h) == (h * scaleOf(w, h).num) \div scaleOf(w, h).den

\* What drawImage puts on the canvas is the platform's; an image is described
\* by the RGBA values of its scaled buffer: those of pixels 0, 4, 8, ... are
\* `shown` and then `rest`, every other pixel is opaque and coloured.
OffColour == <<200, 100, 50, 255>>

PixelAt(image, p) ==
    IF p % 4 = 0
    THEN IF p \div 4 < Len(image.shown) THEN image.shown[p \div 4 + 1] ELSE image.rest
    ELSE OffColour

\* imageData.data[i]
DataAt(image, i) == PixelAt(image, i \div 4)[(i % 4) + 1]

\* Mutant: alpha 128 counts as opaque (a >= 128).
KeepsAlphaInclusive(r, g, b, a) ==
    a >= AlphaThreshold /\ r + g + b > DarkThreshold /\ r + g + b < LightThreshold

\* a > 128 && r + g + b > 30 && r + g + b < 735
Keeps(r, g, b, a) ==
    a > AlphaThreshold /\ r + g + b > DarkThreshold /\ r + g + b < LightThreshold

\* Mutant: the loop steps by one pixel (i += 4) and visits every pixel.
StrideOnePixel(image, cw, ch) ==
    LET read == [t \in 1..(cw * ch) |->
                    LET i == 4 * (t - 1)
                    IN  <<DataAt(image, i), DataAt(image, i + 1),
                          DataAt(image, i + 2), DataAt(image, i + 3)>>]
        kept == SelectSeq(read, LAMBDA q : Keeps(q[1], q[2], q[3], q[4]))
    IN  [j \in 1..Len(kept) |-> <<kept[j][1], kept[j][2], kept[j][3]>>]

\* sampledPixels after the loop `for (let i = 0; i < pixels.length; i += 16)`
\* over the cw * ch * 4 bytes of the buffer: turn t reads the four bytes from
\* i = 16 (t - 1) on, and pushes [r, g, b] when the filter keeps them.
SamplePixels(image, cw, ch) ==
    LET len == cw * ch * 4
        turns == (len + ByteStride - 1) \div ByteStride
        read == [t \in 1..turns |->
                    LET i == ByteStride * (t - 1)
                    IN  <<DataAt(image, i), DataAt(image, i + 1),
                          DataAt(image, i + 2), DataAt(image, i + 3)>>]
        kept == SelectSeq(read, LAMBDA q : Keeps(q[1], q[2], q[3], q[4]))
    IN  [j \in 1..Len(kept) |-> <<kept[j][1], kept[j][2], kept[j][3]>>]

\* Mutant: the fallback for an empty sample is missing.
NoFallback(sampled) == FALSE

\* sampledPixels.length === 0
IsEmptySample(sampled) == Len(sampled) = 0

\* ------------------------------------------------------------ hex encoding
HexDigits == <<"0", "1", "2", "3", "4", "5", "6", "7",
               "8", "9", "a", "b", "c", "d", "e", "f">>

\* Math.round(n) of the rational num / den.
MathRound(num, den) == (2 * num + den) \div (2 * den)

\* n.toString(16) of an integer n >= 0, as the sequence of its characters.
RECURSIVE ToString16(_)
ToString16(n) ==
    IF n < 16 THEN <<HexDigits[n + 1]>>
    ELSE ToString16(n \div 16) \o <<HexDigits[(n % 16) + 1]>>

\* Mutant: no padding.
PadStart2None(str) == str

\* str.padStart(2, '0')
PadStart2(str) == IF Len(str) >= 2 THEN str ELSE <<"0">> \o str

\* toHex(n) = Math.round(n).toString(16).padStart(2, '0')
toHex(num, den) == PadStart2(ToString16(MathRound(num, den)))

\* `#${toHex(r)}${toHex(g)}${toHex(b)}` of a centroid
HexOf(c) == <<"#">> \o toHex(c.v[1], c.d) \o toHex(c.v[2], c.d) \o toHex(c.v[3], c.d)

\* '#000000'
BlackHex == <<"#", "0", "0", "0", "0", "0", "0">>

\* ------------------------------------------------------------------ state
VARIABLES
    pc,             \* "idle", "seed", "iterate", "done" (kMeansClustering returned),
                    \* "returned", "threw" (extractFromImageElement ended)
    pixels,         \* the pixel list (parameter pixels)
    k,              \* parameter k
    maxIterations,  \* parameter maxIterations
    centroids,      \* let centroids
    usedIndices,    \* const usedIndices (0-based indices)
    iteration,      \* loop variable of the refinement loop
    converged,      \* const converged of the last pass
    seeds,          \* the centroids as they were when seeding ended
    fed,            \* clusters (0-based) that received a point in some pass
    clusters,       \* const clusters of the last pass
    refs,           \* per centroid, the array object that holds it: 0 for an
                    \* array created inside the call, j >= 1 for the array
                    \* that is pixels[j - 1] of the caller
    caller,         \* "none", "direct" (kMeansClustering called on a list) or
                    \* "extract" (called by extractFromImageElement)
    img,            \* the image handed to extractFromImageElement
    canvas,         \* <<canvas.width, canvas.height>>
    result,         \* the strings extractFromImageElement returns
    \* extractColorsFromImage, one entry per call
    promise,        \* "none" (not called), "pending", "resolved", "rejected"
    reader,         \* the FileReader: "idle", "reading", "loaded", "failed"
    imgEl,          \* the Image: "blank", "decoding", "loaded", "failed"
    file,           \* parameter imageFile
    count,          \* parameter colorCount
    ctx,            \* canvas.getContext('2d'): "unasked", "context", "null"
    outcome,        \* the colours the promise was resolved with
    engineRuns,     \* how often kMeansClustering was entered for the call
    settles,        \* how often resolve or reject was called
    active,         \* the call whose img.onload handler is running, 0 for none
    \* the palette of the page
    mounted,        \* "none", "hook" (usePalette) or "app" (App)
    initialCount,   \* usePalette: parameter initialCount
    columns,        \* usePalette: const [columns, setColumns]
    colors,         \* App: const [colors, setColors]
    nextId,         \* ids given out so far (Date.now(), Math.random())
    edits,          \* operations other than addColumn made so far
    last,           \* the last operation: its name, whether its id argument was
                    \* the id of a column, whether it changed the palette
    \* the shareable URL
    urlStep,        \* "start", "shared" (the page is opened at a generated
                    \* URL), "opened" (at another URL), "parsedShared",
                    \* "parsedOther" (parsePaletteFromURL has returned)
    shareColors,    \* generateShareableURL: parameter colors
    href,           \* the URL of the page
    parsed,         \* what parsePaletteFromURL returned: <<>> for null, <<list>>
                    \* for a list
    \* App between two renders
    seen,           \* colors.length in the closures of the last render
    now,            \* Date.now()
    \* Toolbar.handleImageUpload, one change event per call number
    upload,         \* "none", "returned" (no file was selected), "awaiting"
                    \* (at the await), "resumed" (past the await)
    imports,        \* the calls of onImportImage: [call, colors], in order
    alerts,         \* how often the failure was reported, per change event
    \* adjustColor
    adjStep,        \* "start", "returned"
    adjArgs,        \* the arguments hex, hueShift, saturationShift, brightnessShift
    passed,         \* the arguments newH, newS, newL of the call of hslToHex
    sector,         \* the branch of the if chain of hslToHex that was taken
                    \* (0..5), -1 when none was
    \* useKeyboard
    hook,           \* "none" (not rendered), "mounted", "cleaned" (unmounted)
    shortcuts,      \* parameter shortcuts: the keys that have a handler
    effects,        \* how often the effect has run
    listeners,      \* the keydown listeners of window, in the order they were
                    \* added: the run that made the closure, its shortcuts
    keyEvent        \* the last keydown event: its target, its key, the state
                    \* of the hook and the shortcuts when it was dispatched,
                    \* and what each listener did with it

kmVars == <<pixels, k, maxIterations, centroids, usedIndices, iteration,
            converged, seeds, fed, clusters, refs>>
exVars == <<caller, img, canvas, result>>
evVars == <<promise, reader, imgEl, file, count, ctx, outcome, engineRuns, settles,
            active>>
uiVars == <<mounted, initialCount, columns, colors, nextId, edits, last>>
urlVars == <<urlStep, shareColors, href, parsed>>
engineVars == <<pc, kmVars, exVars>>
appVars == <<seen, now>>
tbVars == <<upload, imports, alerts>>
adjVars == <<adjStep, adjArgs, passed, sector>>
kbVars == <<hook, shortcuts, effects, listeners, keyEvent>>
laterVars == <<adjVars, kbVars>>
sideVars == <<tbVars, laterVars>>
moreVars == <<appVars, sideVars>>
hostVars == <<evVars, uiVars, urlVars, moreVars>>
vars == <<pc, kmVars, exVars, hostVars>>

\* Pixel colours of the direct calls: two colours near (0,0,0), two near
\* (255,255,255), and one at distance 2 of the first, so that a mean can lie
\* at distance 1, or less, of a seed.
PixelValues ==
    << <<3, 0, 0>>, <<0, 3, 0>>, <<255, 252, 255>>, <<252, 255, 255>>,
       <<5, 0, 0>> >>

\* The pixel lists of at most n points over PixelValues, each multiset of
\* colours listed once (in the order of PixelValues): the engine reads the
\* list through random indices and sums, so that the order of the list
\* decides nothing that the draws of SeedDraw do not decide as well.
PixelLists(n) ==
    UNION { { [j \in 1..len |-> PixelValues[f[j]]] :
                f \in { g \in [1..len -> 1..Len(PixelValues)] :
                          \A a \in 1..len : \A b \in a..len : g[a] <= g[b] } } :
            len \in 0..n }

\* RGBA values of the freely chosen visited pixels: each threshold of the
\* filter from both sides.
ShownValues ==
    { <<10, 20, 30, 128>>, <<10, 20, 30, 129>>,
      <<10, 10, 10, 255>>, <<10, 10, 11, 255>>,
      <<245, 245, 245, 255>>, <<244, 245, 245, 255>> }

\* RGBA values of the other visited pixels: transparent, white, black.
RestValues == { <<0, 0, 0, 0>>, <<255, 255, 255, 255>>, <<0, 0, 0, 255>> }

RECURSIVE SeqsUpTo(_, _)
SeqsUpTo(S, n) ==
    IF n = 0 THEN { <<>> }
    ELSE LET shorter == SeqsUpTo(S, n - 1)
         IN  shorter \cup { Append(t, x) : t \in { u \in shorter : Len(u) = n - 1 },
                                            x \in S }

\* <<width, height>> of images whose scaled buffer is small (200x1, 1x200,
\* 200x2, and 200x0 for the last), and of large ones (200x150, 200x200).
SmallSizes == { <<400, 2>>, <<2, 400>>, <<200, 2>>, <<1000, 3>> }
LargeSizes == { <<4000, 3000>>, <<1, 1>> }

NoImage == [width |-> 0, height |-> 0, shown |-> <<>>, rest |-> <<0, 0, 0, 0>>]

\* The images extractFromImageElement is called on.
Images ==
    { [width |-> wh[1], height |-> wh[2], shown |-> sh, rest |-> rs] :
        wh \in SmallSizes, sh \in SeqsUpTo(ShownValues, MaxVisited), rs \in RestValues }
    \cup
    { [width |-> wh[1], height |-> wh[2], shown |-> <<>>, rest |-> rs] :
        wh \in LargeSizes, rs \in RestValues }

IterationCaps == { 1, DefaultMaxIterations }

\* The calls of extractColorsFromImage that may be under way together.
Calls == {1, 2}

\* Images of the files: one with two kept pixels, one with one kept pixel,
\* one with none, and one whose scaled canvas has height 0.
EventImages ==
    { [width |-> 400, height |-> 2,
       shown |-> << <<10, 10, 11, 255>>, <<244, 245, 245, 255>> >>,
       rest |-> <<0, 0, 0, 0>>],
      [width |-> 400, height |-> 2,
       shown |-> << <<10, 20, 30, 129>> >>, rest |-> <<0, 0, 0, 0>>],
      [width |-> 400, height |-> 2, shown |-> <<>>, rest |-> <<0, 0, 0, 0>>],
      [width |-> 1000, height |-> 3, shown |-> <<>>, rest |-> <<0, 0, 0, 255>>] }

NoFile == [readable |-> FALSE, decodable |-> FALSE, picture |-> NoImage]

\* The files handed to extractColorsFromImage: one the reader cannot read,
\* one that is no image, and the images above.
Files ==
    { NoFile, [readable |-> TRUE, decodable |-> FALSE, picture |-> NoImage] }
    \cup { [readable |-> TRUE, decodable |-> TRUE, picture |-> im] : im \in EventImages }

\* Values of colorCount in the calls of extractColorsFromImage.
EventCounts == {1, 2}

\* No call of extractColorsFromImage has been made.
EvInit ==
    /\ promise = [c \in Calls |-> "none"]
    /\ reader = [c \in Calls |-> "idle"]
    /\ imgEl = [c \in Calls |-> "blank"]
    /\ file = [c \in Calls |-> NoFile]
    /\ count = [c \in Calls |-> 1]
    /\ ctx = [c \in Calls |-> "unasked"]
    /\ outcome = [c \in Calls |-> <<>>]
    /\ engineRuns = [c \in Calls |-> 0]
    /\ settles = [c \in Calls |-> 0]
    /\ active = 0

\* Colours as the generators return them.
Hexes == {"#336699", "#cc9933"}

\* Nothing is mounted.
UiInit ==
    /\ mounted = "none"
    /\ initialCount = DefaultCount
    /\ columns = <<>>
    /\ colors = <<>>
    /\ nextId = 0
    /\ edits = 0
    /\ last = [op |-> "none", hit |-> FALSE, changed |-> FALSE]

\* No URL yet.
UrlInit ==
    /\ urlStep = "start"
    /\ shareColors = <<>>
    /\ href = <<>>
    /\ parsed = <<>>

\* Nothing is rendered, and the clock is at its start.
AppInit ==
    /\ seen = 0
    /\ now = 0

\* No change event of the file input yet.
ToolbarInit ==
    /\ upload = [c \in Calls |-> "none"]
    /\ imports = <<>>
    /\ alerts = [c \in Calls |-> 0]

\* adjustColor has not been called.
AdjustInit ==
    /\ adjStep = "start"
    /\ adjArgs = [hex |-> <<>>, hueShift |-> 0, saturationShift |-> 0,
                  brightnessShift |-> 0]
    /\ passed = [h |-> Rat(0, 1), s |-> Rat(0, 1), l |-> Rat(0, 1)]
    /\ sector = -1

\* useKeyboard has not been rendered, no key was pressed.
KeyboardInit ==
    /\ hook = "none"
    /\ shortcuts = {}
    /\ effects = 0
    /\ listeners = <<>>
    /\ keyEvent = [target |-> "none", key |-> "", hook |-> "none",
                   shortcuts |-> {}, calls |-> <<>>]

HostInit ==
    EvInit /\ UiInit /\ UrlInit /\ AppInit /\ ToolbarInit /\ AdjustInit /\ KeyboardInit

\* Before the call: no arguments yet, every local empty.
Init ==
    /\ pc = "idle"
    /\ pixels = <<>>
    /\ k = 1
    /\ maxIterations = DefaultMaxIterations
    /\ centroids = <<>>
    /\ usedIndices = {}
    /\ iteration = 0
    /\ converged = FALSE
    /\ seeds = <<>>
    /\ fed = {}
    /\ clusters = <<>>
    /\ refs = <<>>
    /\ caller = "none"
    /\ img = NoImage
    /\ canvas = <<0, 0>>
    /\ result = <<>>
    /\ HostInit

\* kMeansClustering(pixels, k, maxIterations) is entered with k >= 1:
\* centroids = [], usedIndices = new Set().
Enter ==
    /\ pc = "idle"
    /\ pixels' \in PixelLists(MaxPixels)
    /\ k' \in 1..MaxK
    /\ maxIterations' \in IterationCaps
    /\ pc' = "seed"
    /\ centroids' = <<>>
    /\ refs' = <<>>
    /\ usedIndices' = {}
    /\ iteration' = 0
    /\ caller' = "direct"
    /\ UNCHANGED <<converged, seeds, fed, clusters, img, canvas, result, hostVars>>

\* Mutant: the fill loop stops one centroid short (centroids.length < k - 1).
AfterSeedShort(cents) == IF Len(cents) < k - 1 THEN "seed" ELSE "iterate"

\* Where the two seeding loops leave control: they go on while
\* centroids.length < k.
AfterSeed(cents) == IF Len(cents) < k THEN "seed" ELSE "iterate"

\* Mutant: the seed is the pixel itself, centroids.push(pixels[idx]).
SeedObjectShared(idx) == idx + 1

\* The array pushed for the index idx: [...pixels[idx]] is a new array.
SeedObject(idx) == 0

\* The arrays of newCentroids: centroids[i] itself for an empty cluster, a
\* new array literal otherwise.
ObjectsAfter(assigned, old) ==
    [i \in 1..Len(old) |-> IF Len(assigned[i]) = 0 THEN old[i] ELSE 0]

\* One turn of `while (centroids.length < k && usedIndices.size < pixels.length)`:
\* a random index; a fresh one is copied into centroids, a used one changes
\* nothing.
SeedDraw ==
    /\ pc = "seed"
    /\ SeedCond(centroids, usedIndices, pixels, k)
    /\ \E idx \in 0..(Len(pixels) - 1) :
        IF idx \notin usedIndices
        THEN /\ centroids' = Append(centroids, CopyOf(pixels[idx + 1]))
             /\ refs' = Append(refs, SeedObject(idx))
             /\ usedIndices' = usedIndices \cup {idx}
        ELSE UNCHANGED <<centroids, refs, usedIndices>>
    /\ seeds' = centroids'
    /\ pc' = AfterSeed(centroids')
    /\ UNCHANGED <<pixels, k, maxIterations, iteration, converged, fed, clusters,
                   exVars, hostVars>>

\* One turn of `while (centroids.length < k)`: a random colour is pushed.
SeedFill ==
    /\ pc = "seed"
    /\ ~SeedCond(centroids, usedIndices, pixels, k)
    /\ Len(centroids) < k
    /\ \E c \in RandomTriples : centroids' = Append(centroids, c)
    /\ refs' = Append(refs, 0)
    /\ seeds' = centroids'
    /\ pc' = AfterSeed(centroids')
    /\ UNCHANGED <<pixels, k, maxIterations, usedIndices, iteration, converged, fed,
                   clusters, exVars, hostVars>>

\* One pass of the refinement loop: assignment, update, convergence check,
\* centroids = newCentroids, then break or iteration++.  The three constants
\* of the pass (clusters, newCentroids, converged) are bound once, as values.
IterationStep ==
    /\ pc = "iterate"
    /\ iteration < maxIterations
    /\ \E assigned \in { AssignPixels(pixels, centroids, k) } :
       \E newCentroids \in { newCentroidsOf(assigned, centroids, k) } :
       \E conv \in { Converged(centroids, newCentroids) } :
           /\ clusters' = assigned
           /\ centroids' = newCentroids
           /\ refs' = ObjectsAfter(assigned, refs)
           /\ converged' = conv
           /\ fed' = fed \cup { i \in 0..(k - 1) : Len(assigned[i + 1]) > 0 }
           /\ IF conv
              THEN pc' = "done" /\ UNCHANGED iteration
              ELSE pc' = "iterate" /\ iteration' = iteration + 1
    /\ UNCHANGED <<pixels, k, maxIterations, usedIndices, seeds, exVars, hostVars>>

\* `iteration < maxIterations` is false: the loop ends and centroids is
\* returned.
LoopExit ==
    /\ pc = "iterate"
    /\ iteration >= maxIterations
    /\ pc' = "done"
    /\ UNCHANGED <<kmVars, exVars, hostVars>>

\* extractFromImageElement(image, colorCount) from the sizing of the canvas up
\* to its call of kMeansClustering: the canvas is sized, the image drawn and
\* sampled.  getImageData throws when the canvas has a dimension of 0; an
\* empty sample returns ['#000000'] at once.
ExtractFrom(image, colorCount) ==
    \E cw \in { canvasWidth(image.width, image.height) } :
    \E ch \in { canvasHeight(image.width, image.height) } :
       /\ img' = image
       /\ caller' = "extract"
       /\ canvas' = <<cw, ch>>
       /\ IF cw = 0 \/ ch = 0
          THEN /\ pc' = "threw"
               /\ UNCHANGED <<kmVars, result>>
          ELSE \E sampled \in { SamplePixels(image, cw, ch) } :
               /\ pixels' = sampled
               /\ IF IsEmptySample(sampled)
                  THEN /\ result' = <<BlackHex>>
                       /\ pc' = "returned"
                       /\ UNCHANGED <<k, maxIterations, centroids, refs,
                                      usedIndices, iteration>>
                  ELSE /\ pc' = "seed"
                       /\ k' = colorCount
                       /\ maxIterations' = DefaultMaxIterations
                       /\ centroids' = <<>>
                       /\ refs' = <<>>
                       /\ usedIndices' = {}
                       /\ iteration' = 0
                       /\ UNCHANGED result
               /\ UNCHANGED <<converged, seeds, fed, clusters>>

\* extractFromImageElement(img, colorCount) called on an image, with a canvas
\* context at hand.
ExtractCall ==
    /\ pc = "idle"
    /\ \E image \in Images, colorCount \in 1..MaxK : ExtractFrom(image, colorCount)
    /\ UNCHANGED hostVars

\* kMeansClustering has returned to extractFromImageElement: clusters.map(...)
\* turns every centroid into a hex string, and the list is returned.
ConvertToHex ==
    /\ pc = "done"
    /\ caller = "extract"
    /\ result' = [i \in 1..Len(centroids) |-> HexOf(centroids[i])]
    /\ pc' = "returned"
    /\ UNCHANGED <<kmVars, caller, img, canvas, hostVars>>

Next == Enter \/ SeedDraw \/ SeedFill \/ IterationStep \/ LoopExit

\* Direct calls of kMeansClustering.
Spec == Init /\ [][Next]_vars

\* Calls of extractFromImageElement as well.
NextExtract == ExtractCall \/ ConvertToHex \/ Next

SpecExtract == Init /\ [][NextExtract]_vars

\* kMeansClustering is a sequential computation: it always takes its next
\* step, and a random draw that repeats a used index is followed by further
\* draws, so a fresh index is eventually drawn while one is left.
FairSpec == Spec /\ WF_vars(Next)

\* ------------------------------------------- extractColorsFromImage, events
\* resolve(...) or reject(...) on the promise of call c: only a pending
\* promise changes its state.
SettleAs(c, state) == IF promise[c] = "pending" THEN state ELSE promise[c]

\* reject is called with an event as the reason.
Reject(c) ==
    /\ promise' = [promise EXCEPT ![c] = SettleAs(c, "rejected")]
    /\ settles' = [settles EXCEPT ![c] = @ + 1]

\* The call made last among those whose file is an image.
LatestCall ==
    CHOOSE d \in Calls :
        /\ promise[d] # "none" /\ file[d].decodable
        /\ \A e \in Calls : promise[e] # "none" /\ file[e].decodable => e <= d

\* Mutant: img is one variable of the module, set anew by every call.
ImgOfLatest(c) == file[LatestCall].picture

\* `const img = new Image()` of call c, as decoded from the bytes the reader
\* of that call handed over (img.src = e.target.result).
ImgOf(c) == file[c].picture

\* Mutant: the load handler may run as soon as the call is made.
MayDecodeAtOnce(c) == promise[c] = "pending" /\ imgEl[c] \in {"blank", "decoding"}

\* The image decodes once reader.onload has set img.src.
MayDecode(c) == imgEl[c] = "decoding"

\* Mutant: a missing context is not noticed.
ThrowsNoContextNever(cx) == FALSE

\* if (!ctx) throw new Error('Could not get canvas context')
ThrowsNoContext(cx) == cx = "null"

\* extractColorsFromImage(imageFile, colorCount): the promise is created, the
\* handlers are set and reader.readAsDataURL(imageFile) is started.  Calls
\* are numbered in the order in which they are made.
StartExtract(c, f, n) ==
    /\ file' = [file EXCEPT ![c] = f]
    /\ count' = [count EXCEPT ![c] = n]
    /\ promise' = [promise EXCEPT ![c] = "pending"]
    /\ reader' = [reader EXCEPT ![c] = "reading"]
    /\ UNCHANGED <<pc, kmVars, exVars, imgEl, ctx, outcome, engineRuns, settles, active>>

\* A call of extractColorsFromImage on some file, for some number of colours.
CallExtract(c) ==
    /\ pc = "idle"
    /\ promise[c] = "none"
    /\ \A d \in Calls : d < c => promise[d] # "none"
    /\ \E f \in Files, n \in EventCounts : StartExtract(c, f, n)
    /\ UNCHANGED <<uiVars, urlVars, moreVars>>

\* reader.onload: img.src = e.target.result
ReaderOnload(c) ==
    /\ pc = "idle"
    /\ reader[c] = "reading"
    /\ file[c].readable
    /\ reader' = [reader EXCEPT ![c] = "loaded"]
    /\ imgEl' = [imgEl EXCEPT ![c] = "decoding"]
    /\ UNCHANGED <<pc, kmVars, exVars, promise, file, count, ctx, outcome, engineRuns,
                   settles, active,
                   uiVars, urlVars, moreVars>>

\* reader.onerror = reject
ReaderOnerror(c) ==
    /\ pc = "idle"
    /\ reader[c] = "reading"
    /\ ~file[c].readable
    /\ reader' = [reader EXCEPT ![c] = "failed"]
    /\ Reject(c)
    /\ UNCHANGED <<pc, kmVars, exVars, imgEl, file, count, ctx, outcome, engineRuns,
                   active,
                   uiVars, urlVars, moreVars>>

\* img.onerror = reject
ImgOnerror(c) ==
    /\ pc = "idle"
    /\ MayDecode(c)
    /\ ~file[c].decodable
    /\ imgEl' = [imgEl EXCEPT ![c] = "failed"]
    /\ Reject(c)
    /\ UNCHANGED <<pc, kmVars, exVars, reader, file, count, ctx, outcome, engineRuns,
                   active,
                   uiVars, urlVars, moreVars>>

\* img.onload is entered: extractFromImageElement(img, colorCount) asks for
\* the context, throws without one, and otherwise sizes, draws and samples.
ImgOnload(c) ==
    /\ pc = "idle"
    /\ MayDecode(c)
    /\ file[c].decodable
    /\ imgEl' = [imgEl EXCEPT ![c] = "loaded"]
    /\ active' = c
    /\ \E cx \in {"context", "null"} :
        /\ ctx' = [ctx EXCEPT ![c] = cx]
        /\ IF ThrowsNoContext(cx)
           THEN /\ pc' = "threw"
                /\ caller' = "extract"
                /\ UNCHANGED <<kmVars, img, canvas, result>>
           ELSE ExtractFrom(ImgOf(c), count[c])
    /\ engineRuns' = [engineRuns EXCEPT ![c] = IF pc' = "seed" THEN @ + 1 ELSE @]
    /\ UNCHANGED <<promise, reader, file, count, outcome, settles,
                   uiVars, urlVars, moreVars>>

\* The end of img.onload: resolve(colors) after a return of
\* extractFromImageElement, reject(error) in the catch clause.  The locals
\* of the handler are gone.
HandlerEnd ==
    /\ pc \in {"returned", "threw"}
    /\ active \in Calls
    /\ promise' = [promise EXCEPT
                     ![active] = SettleAs(active, IF pc = "returned" THEN "resolved"
                                                                    ELSE "rejected")]
    /\ outcome' = [outcome EXCEPT
                     ![active] = IF pc = "returned" /\ promise[active] = "pending"
                                 THEN result ELSE @]
    /\ settles' = [settles EXCEPT ![active] = @ + 1]
    /\ active' = 0
    /\ pc' = "idle"
    /\ pixels' = <<>>
    /\ k' = 1
    /\ maxIterations' = DefaultMaxIterations
    /\ centroids' = <<>>
    /\ refs' = <<>>
    /\ usedIndices' = {}
    /\ iteration' = 0
    /\ converged' = FALSE
    /\ seeds' = <<>>
    /\ fed' = {}
    /\ clusters' = <<>>
    /\ caller' = "none"
    /\ img' = NoImage
    /\ canvas' = <<0, 0>>
    /\ result' = <<>>
    /\ UNCHANGED <<reader, imgEl, file, count, ctx, engineRuns,
                   uiVars, urlVars, moreVars>>

\* The steps of a running load handler.  The refinement loop is entered with
\* the default cap of 20 passes, and on the samples of EventImages it ends by
\* convergence well before the cap: the exit by the loop condition (LoopExit)
\* is no step here.
HandlerStep ==
    SeedDraw \/ SeedFill \/ IterationStep \/ ConvertToHex \/ HandlerEnd

ReaderEvent(c) == ReaderOnload(c) \/ ReaderOnerror(c)

ImgEvent(c) == ImgOnload(c) \/ ImgOnerror(c)

NextEvents ==
    \/ \E c \in Calls : CallExtract(c)
    \/ \E c \in Calls : ReaderOnload(c)
    \/ \E c \in Calls : ReaderOnerror(c)
    \/ \E c \in Calls : ImgOnload(c)
    \/ \E c \in Calls : ImgOnerror(c)
    \/ SeedDraw \/ SeedFill \/ IterationStep \/ ConvertToHex
    \/ HandlerEnd

\* Calls of extractColorsFromImage and the events of their readers and images.
SpecEvents == Init /\ [][NextEvents]_vars

\* The platform fires load or error for every reader that reads and every
\* image that decodes, and a handler that runs takes its next step.
FairEvents ==
    /\ SpecEvents
    /\ \A c \in Calls : WF_vars(ReaderEvent(c)) /\ WF_vars(ImgEvent(c))
    /\ WF_vars(HandlerStep)

\* ------------------------------------------------ Toolbar.handleImageUpload
\* e.target.files?.[0]: <<>> when no file is selected; else a file the reader
\* cannot read, one that is no image, or an image: one with a kept pixel,
\* one with none, one whose scaled canvas has height 0.
Selections ==
    { <<>> } \cup { <<f>> : f \in { g \in Files : Len(g.picture.shown) <= 1 } }

\* Mutant: onImportImage is called after the await whatever the promise
\* settled to (the call stands after the try statement).
ImportedAlways(c, log) ==
    Append(log, [call |-> c, colors |-> outcome[c]])

\* The calls of onImportImage once handleImageUpload is past its await:
\* onImportImage(colors) in the try block, nothing in the catch clause.
Imported(c, log) ==
    IF promise[c] = "resolved"
    THEN Append(log, [call |-> c, colors |-> outcome[c]])
    ELSE log

\* The reports of the catch clause: console.error(...) and alert(...).
Alerted(c, n) == IF promise[c] = "rejected" THEN n + 1 ELSE n

\* handleImageUpload(e) up to its await: it returns when no file is
\* selected and calls extractColorsFromImage(file, 5) otherwise.  Change
\* events are numbered in the order in which they arrive.
handleImageUpload(c) ==
    /\ pc = "idle"
    /\ upload[c] = "none"
    /\ \A d \in Calls : d < c => upload[d] # "none"
    /\ \E picked \in Selections :
        IF picked = <<>>
        THEN /\ upload' = [upload EXCEPT ![c] = "returned"]
             /\ UNCHANGED <<engineVars, evVars>>
        ELSE /\ upload' = [upload EXCEPT ![c] = "awaiting"]
             /\ StartExtract(c, picked[1], DefaultCount)
    /\ UNCHANGED <<uiVars, urlVars, appVars, imports, alerts, laterVars>>

\* handleImageUpload(e) from its await on, once the promise is settled.
ResumeUpload(c) ==
    /\ pc = "idle"
    /\ upload[c] = "awaiting"
    /\ promise[c] \in {"resolved", "rejected"}
    /\ upload' = [upload EXCEPT ![c] = "resumed"]
    /\ imports' = Imported(c, imports)
    /\ alerts' = [alerts EXCEPT ![c] = Alerted(c, @)]
    /\ UNCHANGED <<engineVars, evVars, uiVars, urlVars, appVars, laterVars>>

NextToolbar ==
    \/ \E c \in Calls : handleImageUpload(c)
    \/ \E c \in Calls : ResumeUpload(c)
    \/ \E c \in Calls : ReaderOnload(c)
    \/ \E c \in Calls : ReaderOnerror(c)
    \/ \E c \in Calls : ImgOnload(c)
    \/ \E c \in Calls : ImgOnerror(c)
    \/ SeedDraw \/ SeedFill \/ IterationStep \/ ConvertToHex
    \/ HandlerEnd

\* Change events of the file input of the Toolbar and what follows them.
SpecToolbar == Init /\ [][NextToolbar]_vars

\* As FairEvents, and a handler at its await goes on once the promise is
\* settled.
FairToolbar ==
    /\ SpecToolbar
    /\ \A c \in Calls : WF_vars(ReaderEvent(c)) /\ WF_vars(ImgEvent(c))
    /\ \A c \in Calls : WF_vars(ResumeUpload(c))
    /\ WF_vars(HandlerStep)

\* -------------------------------------------------------------- adjustColor
\* parseInt(str, 16) of two lowercase hexadecimal digits.
parseInt16(str) ==
    LET digit(c) == CHOOSE n \in 0..15 : HexDigits[n + 1] = c
    IN  16 * digit(str[1]) + digit(str[2])

\* hexToHSL(hex): {h, s, l} as exact rationals.  With R, G, B the integer
\* channels (r = R / 255, ...), d = (max - min) / 255 and the factors 255
\* cancel: h * 360 = 60 * ((G - B) / D + 6 or 0), 60 * ((B - R) / D + 2),
\* 60 * ((R - G) / D + 4) for D = MAX - MIN, by the first case of the switch
\* that matches max.
hexToHSL(hex) ==
    LET R == parseInt16(SubSeq(hex, 2, 3))
        G == parseInt16(SubSeq(hex, 4, 5))
        B == parseInt16(SubSeq(hex, 6, 7))
        MAX == IF R >= G /\ R >= B THEN R ELSE IF G >= B THEN G ELSE B
        MIN == IF R <= G /\ R <= B THEN R ELSE IF G <= B THEN G ELSE B
        D == MAX - MIN
    IN  IF MAX = MIN
        THEN [h |-> Rat(0, 1), s |-> Rat(0, 1), l |-> Rat(100 * (MAX + MIN), 2 * ChannelMax)]
        ELSE [h |-> IF MAX = R THEN Rat(60 * ((G - B) + (IF G < B THEN 6 * D ELSE 0)), D)
                    ELSE IF MAX = G THEN Rat(60 * ((B - R) + 2 * D), D)
                    ELSE Rat(60 * ((R - G) + 4 * D), D),
              s |-> IF MAX + MIN > ChannelMax
                    THEN Rat(100 * D, 2 * ChannelMax - MAX - MIN)
                    ELSE Rat(100 * D, MAX + MIN),
              l |-> Rat(100 * (MAX + MIN), 2 * ChannelMax)]

\* x % 360 of JavaScript for -360 < x < 720: the result has the sign of x.
Remainder360(x) ==
    IF x.num >= FullTurn * x.den THEN Rat(x.num - FullTurn * x.den, x.den) ELSE x

\* Math.max(0, Math.min(100, x + shift))
Clamp100(x, shift) ==
    LET sum == Rat(x.num + shift * x.den, x.den)
    IN  IF sum.num < 0 THEN Rat(0, 1)
        ELSE IF sum.num > 100 * sum.den THEN Rat(100, 1)
        ELSE sum

\* The branch of hslToHex's if chain for the hue h: 0 for 0 <= h < 60, ...,
\* 5 for 300 <= h < 360, and -1 when no condition holds (r, g, b stay 0).
SectorOf(h) ==
    IF h.num < 0 \/ h.num >= FullTurn * h.den THEN -1
    ELSE h.num \div (60 * h.den)

\* The colours of the palette adjustColor is called on.
AdjustedHexes ==
    { <<"#", "f", "f", "0", "0", "0", "0">>, <<"#", "0", "0", "f", "f", "0", "0">>,
      <<"#", "0", "0", "0", "0", "f", "f">>, <<"#", "f", "f", "0", "0", "8", "0">>,
      <<"#", "8", "0", "8", "0", "8", "0">>, <<"#", "3", "3", "6", "6", "9", "9">> }

\* Values of the hue slider (min -180, max 180, step 1), and of the two other
\* sliders: their ends and 0.
HueShifts == (0 - HueShiftMax)..HueShiftMax
OtherShifts == { 0 - ShiftMax, 0, ShiftMax }

\* adjustColor(hex, hueShift, saturationShift, brightnessShift), up to its
\* call of hslToHex(newH, newS, newL) and the branch hslToHex takes.
adjustColor ==
    /\ adjStep = "start"
    /\ \E hex \in AdjustedHexes, hueShift \in HueShifts :
       \E saturationShift \in OtherShifts, brightnessShift \in OtherShifts :
       \E hsl \in { hexToHSL(hex) } :
       \E newH \in { Remainder360(Rat(hsl.h.num + hueShift * hsl.h.den, hsl.h.den)) } :
          /\ adjArgs' = [hex |-> hex, hueShift |-> hueShift,
                         saturationShift |-> saturationShift,
                         brightnessShift |-> brightnessShift]
          /\ passed' = [h |-> newH,
                        s |-> Clamp100(hsl.s, saturationShift),
                        l |-> Clamp100(hsl.l, brightnessShift)]
          /\ sector' = SectorOf(newH)
    /\ adjStep' = "returned"
    /\ UNCHANGED <<engineVars, evVars, uiVars, urlVars, appVars, tbVars, kbVars>>

\* Calls of adjustColor.
SpecAdjust == Init /\ [][adjustColor]_vars

\* -------------------------------------------------------------- useKeyboard
\* e.key.toLowerCase() for the keys pressed here.
toLowerCase(key) ==
    IF key = "C" THEN "c" ELSE IF key = "S" THEN "s" ELSE key

\* Mutant: handleKeyDown without the test of e.target.
handleKeyDownAnywhere(target, key, registered) ==
    [invoked |-> IF toLowerCase(key) \in registered THEN <<toLowerCase(key)>> ELSE <<>>,
     prevented |-> toLowerCase(key) \in registered]

\* handleKeyDown(e) of a closure over the shortcuts `registered`: the handlers
\* it invokes (named by the key they are registered under) and whether it
\* calls e.preventDefault().
handleKeyDown(target, key, registered) ==
    IF target \in {"input", "textarea"}
    THEN [invoked |-> <<>>, prevented |-> FALSE]
    ELSE IF toLowerCase(key) \in registered
         THEN [invoked |-> <<toLowerCase(key)>>, prevented |-> TRUE]
         ELSE [invoked |-> <<>>, prevented |-> FALSE]

\* useKeyboard(sc) is rendered with a new shortcuts object: the cleanup of
\* the previous run of the effect, if any (removeEventListener for the closure
\* of that run), then the effect, which adds a new closure.
useKeyboard ==
    /\ hook \in {"none", "mounted"}
    /\ effects < MaxEffects
    /\ \E sc \in SUBSET {" ", "c", "C"} :
          /\ shortcuts' = sc
          /\ listeners' = Append(SelectSeq(listeners, LAMBDA l : l.run # effects),
                                 [run |-> effects + 1, shortcuts |-> sc])
    /\ effects' = effects + 1
    /\ hook' = "mounted"
    /\ UNCHANGED <<keyEvent, engineVars, evVars, uiVars, urlVars, appVars, tbVars,
                   adjVars>>

\* The component is unmounted: the cleanup of the effect runs,
\* removeEventListener for the closure of the latest run.
Cleanup ==
    /\ hook = "mounted"
    /\ listeners' = SelectSeq(listeners, LAMBDA l : l.run # effects)
    /\ hook' = "cleaned"
    /\ UNCHANGED <<shortcuts, effects, keyEvent, engineVars, evVars, uiVars, urlVars,
                   appVars, tbVars, adjVars>>

\* A keydown event reaches window: every listener is called with it.
KeyDown ==
    /\ \E target \in {"input", "textarea", "body", "button"} :
       \E key \in {" ", "c", "C", "S", "x"} :
          keyEvent' = [target |-> target, key |-> key, hook |-> hook,
                       shortcuts |-> shortcuts,
                       calls |-> [i \in 1..Len(listeners) |->
                                    handleKeyDown(target, key, listeners[i].shortcuts)]]
    /\ UNCHANGED <<hook, shortcuts, effects, listeners, engineVars, evVars, uiVars,
                   urlVars, appVars, tbVars, adjVars>>

NextKeyboard == useKeyboard \/ Cleanup \/ KeyDown

\* The hook and the keyboard.
SpecKeyboard == Init /\ [][NextKeyboard]_vars

\* ----------------------------------------------------- palette operations
\* array.splice(i, 1) on a copy of s, for an index i >= 0; nothing is
\* removed at an index beyond the end.
RemoveAt(s, i) ==
    IF i >= Len(s) THEN s
    ELSE [j \in 1..(Len(s) - 1) |-> IF j <= i THEN s[j] ELSE s[j + 1]]

\* Mutant: the element is put one place further (splice(i + 1, 0, x)).
InsertAtNext(s, i, x) ==
    LET at == IF i + 1 > Len(s) THEN Len(s) ELSE i + 1
    IN  [j \in 1..(Len(s) + 1) |->
            IF j <= at THEN s[j] ELSE IF j = at + 1 THEN x ELSE s[j - 1]]

\* array.splice(i, 0, x) on a copy of s, for an index i >= 0; an index beyond
\* the end inserts at the end.
InsertAt(s, i, x) ==
    LET at == IF i > Len(s) THEN Len(s) ELSE i
    IN  [j \in 1..(Len(s) + 1) |->
            IF j <= at THEN s[j] ELSE IF j = at + 1 THEN x ELSE s[j - 1]]

\* Lists of n colours a generator may return: one colour throughout, or the
\* two in turn.
Generated(n) ==
    { [i \in 1..n |-> h] : h \in Hexes }
    \cup { [i \in 1..n |-> IF i % 2 = 1 THEN "#336699" ELSE "#cc9933"] }

\* Values of initialCount: the least palette and the default one.
InitialCounts == {2, DefaultCount}

\* The colour generatePalette(1, prev, schemeType)[0] of a new column.
AddedHexes == {"#cc9933"}

\* The palettes the operations are followed on.  A palette of at most
\* MaxColumns columns receives every operation, MaxEdits of them other than
\* addColumn; a palette that has received addColumn only is followed under
\* addColumn until it has more than ColumnLimit columns.
MayEdit == edits < MaxEdits /\ Len(columns) <= MaxColumns
MayAdd == Len(columns) < MaxColumns \/ (edits = 0 /\ Len(columns) <= ColumnLimit)

\* Ids handed to an operation: those of the first and of the last column,
\* and one that no column has.
SomeIds(cols) ==
    IF Len(cols) = 0 THEN {-1} ELSE {cols[1].id, cols[Len(cols)].id, -1}

\* In-range indices handed to reorderColumns and handleMove.
SomeIndices(n) == { i \in {0, 1, n - 1} : 0 <= i /\ i < n }

\* What `last` records of a move, its two arguments included.
DidMove(op, fromIndex, toIndex, old, new) ==
    [op |-> op, hit |-> TRUE, changed |-> old # new,
     fromIndex |-> fromIndex, toIndex |-> toIndex]

\* What `last` records of an operation on the palette `old` giving `new`.
Did(op, hit, old, new) == [op |-> op, hit |-> hit, changed |-> old # new]

HasId(cols, id) == \E i \in 1..Len(cols) : cols[i].id = id

\* usePalette(initialCount): columns = generateInitialPalette(initialCount),
\* with the ids color-0, color-1, ...
MountHook ==
    /\ mounted = "none"
    /\ \E n \in InitialCounts : \E hexes \in Generated(n) :
        /\ initialCount' = n
        /\ columns' = [i \in 1..n |->
                          [id |-> i - 1, hex |-> hexes[i], locked |-> FALSE]]
        /\ nextId' = n
    /\ mounted' = "hook"
    /\ last' = [op |-> "usePalette", hit |-> TRUE, changed |-> TRUE]
    /\ UNCHANGED <<engineVars, evVars, urlVars, moreVars, colors, edits>>

\* The number of unlocked columns among the first i: newColorIndex + 1 when
\* the forEach of regeneratePalette is at an unlocked column i.
UnlockedUpTo(cols, i) == Cardinality({ j \in 1..i : ~cols[j].locked })

\* Mutant: every column is given a new colour.
RegeneratedAll(cols, newColors) ==
    [i \in 1..Len(cols) |->
        [id |-> cols[i].id, hex |-> newColors[1], locked |-> FALSE]]

\* Mutant: the locked columns are pushed first, the regenerated ones after
\* them.
RegeneratedLockedFirst(cols, newColors) ==
    SelectSeq(cols, LAMBDA col : col.locked)
    \o [i \in 1..Len(newColors) |->
           [id |-> SelectSeq(cols, LAMBDA col : ~col.locked)[i].id,
            hex |-> newColors[i], locked |-> FALSE]]

\* The result of the updater of regeneratePalette for the generated colours.
Regenerated(cols, newColors) ==
    [i \in 1..Len(cols) |->
        IF cols[i].locked THEN cols[i]
        ELSE [id |-> cols[i].id, hex |-> newColors[UnlockedUpTo(cols, i)],
              locked |-> FALSE]]

\* regeneratePalette(); on a palette whose columns are all locked it is
\* followed whatever the number of operations made before.
regeneratePalette ==
    /\ mounted = "hook"
    /\ MayEdit \/ UnlockedUpTo(columns, Len(columns)) = 0
    /\ LET unlockedCount == UnlockedUpTo(columns, Len(columns))
       IN  IF unlockedCount = 0
           THEN columns' = columns
           ELSE \E newColors \in Generated(unlockedCount) :
                    columns' = Regenerated(columns, newColors)
    /\ last' = Did("regeneratePalette", TRUE, columns, columns')
    /\ edits' = IF MayEdit THEN edits + 1 ELSE edits
    /\ UNCHANGED <<engineVars, evVars, urlVars, moreVars, mounted, initialCount, colors, nextId>>

\* toggleLock(id)
toggleLock(id) ==
    /\ mounted = "hook"
    /\ MayEdit
    /\ columns' = [i \in 1..Len(columns) |->
                      IF columns[i].id = id
                      THEN [columns[i] EXCEPT !.locked = ~columns[i].locked]
                      ELSE columns[i]]
    /\ last' = Did("toggleLock", HasId(columns, id), columns, columns')
    /\ edits' = edits + 1
    /\ UNCHANGED <<engineVars, evVars, urlVars, moreVars, mounted, initialCount, colors, nextId>>

\* updateColor(id, hex)
updateColor(id, hex) ==
    /\ mounted = "hook"
    /\ MayEdit
    /\ columns' = [i \in 1..Len(columns) |->
                      IF columns[i].id = id
                      THEN [columns[i] EXCEPT !.hex = hex]
                      ELSE columns[i]]
    /\ last' = Did("updateColor", HasId(columns, id), columns, columns')
    /\ edits' = edits + 1
    /\ UNCHANGED <<engineVars, evVars, urlVars, moreVars, mounted, initialCount, colors, nextId>>

\* addColumn(afterIndex): afterIndex is <<>> for undefined, <<i>> for i.
\* The new column has a fresh id and a generated colour.
addColumn(afterIndex) ==
    /\ mounted = "hook"
    /\ MayAdd
    /\ \E hex \in AddedHexes :
        LET newColumn == [id |-> nextId, hex |-> hex, locked |-> FALSE]
        IN  columns' = IF afterIndex = <<>>
                       THEN Append(columns, newColumn)
                       ELSE InsertAt(columns, afterIndex[1] + 1, newColumn)
    /\ nextId' = nextId + 1
    /\ last' = Did("addColumn", TRUE, columns, columns')
    /\ UNCHANGED <<engineVars, evVars, urlVars, moreVars, mounted, initialCount, colors, edits>>

\* Mutant: the last column may be removed from a palette of two.
RemovedUnguarded(cols, id) == SelectSeq(cols, LAMBDA col : col.id # id)

\* The result of the updater of removeColumn.
Removed(cols, id) ==
    IF Len(cols) <= 2 THEN cols
    ELSE SelectSeq(cols, LAMBDA col : col.id # id)

\* removeColumn(id)
removeColumn(id) ==
    /\ mounted = "hook"
    /\ MayEdit
    /\ columns' = Removed(columns, id)
    /\ last' = Did("removeColumn", HasId(columns, id), columns, columns')
    /\ edits' = edits + 1
    /\ UNCHANGED <<engineVars, evVars, urlVars, moreVars, mounted, initialCount, colors, nextId>>

\* reorderColumns(fromIndex, toIndex), both indices in range
reorderColumns(fromIndex, toIndex) ==
    /\ mounted = "hook"
    /\ MayEdit
    /\ columns' = InsertAt(RemoveAt(columns, fromIndex), toIndex,
                           columns[fromIndex + 1])
    /\ last' = DidMove("reorderColumns", fromIndex, toIndex, columns, columns')
    /\ edits' = edits + 1
    /\ UNCHANGED <<engineVars, evVars, urlVars, moreVars, mounted, initialCount, colors, nextId>>

\* colors.length as the callbacks of the last render see it
\* (useCallback(..., [colors.length])).
closureLength == Len(colors)

\* The result of the updater of generateNewPalette on a palette that is not
\* empty: newColors[i] || newColors[0] for an unlocked colour.
NewPalette(prevColors, newColors) ==
    [i \in 1..Len(prevColors) |->
        IF prevColors[i].locked THEN prevColors[i]
        ELSE [prevColors[i] EXCEPT
                !.hex = IF i <= Len(newColors) THEN newColors[i] ELSE newColors[1]]]

\* generateNewPalette(), also the effect of the first render: five fresh
\* colours for an empty palette.
generateNewPalette ==
    /\ mounted = "app"
    /\ edits < MaxEdits \/ Len(colors) = 0
    /\ \E newColors \in Generated(IF closureLength = 0 THEN DefaultCount
                                                          ELSE closureLength) :
        IF Len(colors) = 0
        THEN /\ colors' = [i \in 1..Len(newColors) |->
                              [id |-> nextId + i - 1, hex |-> newColors[i],
                               locked |-> FALSE]]
             /\ nextId' = nextId + Len(newColors)
             /\ UNCHANGED edits
        ELSE /\ colors' = NewPalette(colors, newColors)
             /\ edits' = edits + 1
             /\ UNCHANGED nextId
    /\ last' = Did("generateNewPalette", TRUE, colors, colors')
    /\ UNCHANGED <<engineVars, evVars, urlVars, moreVars, mounted, initialCount, columns>>

\* <App /> is rendered for the first time: colors = [].
MountApp ==
    /\ mounted = "none"
    /\ mounted' = "app"
    /\ last' = [op |-> "App", hit |-> TRUE, changed |-> FALSE]
    /\ UNCHANGED <<engineVars, evVars, urlVars, moreVars, initialCount, columns, colors, nextId,
                   edits>>

\* handleLockToggle(id)
handleLockToggle(id) ==
    /\ mounted = "app"
    /\ Len(colors) > 0
    /\ colors' = [i \in 1..Len(colors) |->
                     IF colors[i].id = id
                     THEN [colors[i] EXCEPT !.locked = ~colors[i].locked]
                     ELSE colors[i]]
    /\ last' = Did("handleLockToggle", HasId(colors, id), colors, colors')
    /\ UNCHANGED <<engineVars, evVars, urlVars, moreVars, mounted, initialCount, columns, nextId,
                   edits>>

\* handleMove(fromIndex, toIndex), both indices in range
handleMove(fromIndex, toIndex) ==
    /\ mounted = "app"
    /\ edits < MaxEdits
    /\ colors' = InsertAt(RemoveAt(colors, fromIndex), toIndex, colors[fromIndex + 1])
    /\ last' = DidMove("handleMove", fromIndex, toIndex, colors, colors')
    /\ edits' = edits + 1
    /\ UNCHANGED <<engineVars, evVars, urlVars, moreVars, mounted, initialCount,
                   columns, nextId>>

\* ------------------------------------------------- App between two renders
\* The id `color-<t>` of handleAddColor, apart from the ids `color-<t>-<i>`
\* of generateNewPalette (0, 1, ...) and from -1, the id of no colour.
TimeId(t) == 0 - 2 - t

\* <App /> is rendered again: the handlers of the new render close over the
\* current colors.
Render ==
    /\ mounted = "app"
    /\ seen # Len(colors)
    /\ seen' = Len(colors)
    /\ UNCHANGED <<engineVars, evVars, uiVars, urlVars, now, sideVars>>

\* Time passes: Date.now() returns the next value.
Tick ==
    /\ mounted = "app"
    /\ now < MaxClock
    /\ now' = now + 1
    /\ UNCHANGED <<engineVars, evVars, uiVars, urlVars, seen, sideVars>>

\* colors after handleRemove(id) of a render that saw `length` colours:
\* if (colors.length > 2) setColors((prev) => prev.filter((c) => c.id !== id)).
AfterRemove(prev, id, length) ==
    IF length > 2 THEN SelectSeq(prev, LAMBDA c : c.id # id) ELSE prev

\* handleRemove(id)
handleRemove(id) ==
    /\ mounted = "app"
    /\ Len(colors) > 0
    /\ colors' = AfterRemove(colors, id, seen)
    /\ last' = Did("handleRemove", HasId(colors, id), colors, colors')
    /\ UNCHANGED <<engineVars, evVars, urlVars, moreVars, mounted, initialCount,
                   columns, nextId, edits>>

\* colors after handleAddColor() of a render that saw `length` colours:
\* if (colors.length < 10) setColors((prev) => [...prev, {id, hex, locked}]).
AfterAdd(prev, hex, length) ==
    IF length < ColumnLimit
    THEN Append(prev, [id |-> TimeId(now), hex |-> hex, locked |-> FALSE])
    ELSE prev

\* handleAddColor(); a palette is followed until it has more than
\* ColumnLimit colours.
handleAddColor ==
    /\ mounted = "app"
    /\ Len(colors) > 0
    /\ Len(colors) <= ColumnLimit
    /\ \E hex \in AddedHexes : colors' = AfterAdd(colors, hex, seen)
    /\ last' = Did("handleAddColor", TRUE, colors, colors')
    /\ UNCHANGED <<engineVars, evVars, urlVars, moreVars, mounted, initialCount,
                   columns, nextId, edits>>

\* generateNewPalette is called once, by the effect of the first render.
NextApp ==
    \/ MountApp
    \/ nextId = 0 /\ generateNewPalette
    \/ Render
    \/ Tick
    \/ \E id \in SomeIds(colors) : handleRemove(id)
    \/ handleAddColor

\* The App component: its handlers and its renders, in any order.
SpecApp == Init /\ [][NextApp]_vars

NextPalette ==
    \/ MountHook
    \/ regeneratePalette
    \/ \E id \in SomeIds(columns) : toggleLock(id)
    \/ \E id \in SomeIds(columns), hex \in Hexes : updateColor(id, hex)
    \/ \E afterIndex \in {<<>>, <<0>>} : addColumn(afterIndex)
    \/ \E id \in SomeIds(columns) : removeColumn(id)
    \/ \E fromIndex \in SomeIndices(Len(columns)) :
       \E toIndex \in SomeIndices(Len(columns)) : reorderColumns(fromIndex, toIndex)
    \/ MountApp
    \/ generateNewPalette
    \/ \E id \in SomeIds(colors) : handleLockToggle(id)
    \/ \E fromIndex \in SomeIndices(Len(colors)) :
       \E toIndex \in SomeIndices(Len(colors)) : handleMove(fromIndex, toIndex)

\* The palette of a page, kept by usePalette or by App.
SpecPalette == Init /\ [][NextPalette]_vars

\* ------------------------------------------------------------ shareable URL
\* A string is the sequence of its characters.
\* The index of the first ch in str, 0 when there is none.
IndexOf(str, ch) ==
    IF \E i \in 1..Len(str) : str[i] = ch
    THEN CHOOSE i \in 1..Len(str) : str[i] = ch /\ \A j \in 1..(i - 1) : str[j] # ch
    ELSE 0

\* str.replace(ch, ''): the first ch is taken out.
ReplaceFirst(str, ch) ==
    LET at == IndexOf(str, ch)
    IN  IF at = 0 THEN str
        ELSE SubSeq(str, 1, at - 1) \o SubSeq(str, at + 1, Len(str))

\* list.join(sep)
RECURSIVE Join(_, _)
Join(list, sep) ==
    IF Len(list) = 0 THEN <<>>
    ELSE IF Len(list) = 1 THEN list[1]
    ELSE list[1] \o <<sep>> \o Join(Tail(list), sep)

\* str.split(sep) for a separator of one character
RECURSIVE Split(_, _)
Split(str, sep) ==
    LET at == IndexOf(str, sep)
    IN  IF at = 0 THEN <<str>>
        ELSE <<SubSeq(str, 1, at - 1)>> \o Split(SubSeq(str, at + 1, Len(str)), sep)

\* window.location.origin + window.location.pathname
BaseUrl == <<"h", ":", "/", "/", "a", "/">>

PaletteKey == <<"p", "a", "l", "e", "t", "t", "e">>

\* generateShareableURL(colors)
generateShareableURL(list) ==
    LET colorString == Join([i \in 1..Len(list) |-> ReplaceFirst(list[i], "#")], "-")
    IN  BaseUrl \o <<"?">> \o PaletteKey \o <<"=">> \o colorString

\* window.location.search of a page opened at url: from the first '?' to the
\* end or to the '#' of the fragment; empty without a '?' or when only a '?'
\* is there.
SearchOf(url) ==
    LET hash == IndexOf(url, "#")
        noFragment == IF hash = 0 THEN url ELSE SubSeq(url, 1, hash - 1)
        mark == IndexOf(noFragment, "?")
    IN  IF mark = 0 \/ mark = Len(noFragment) THEN <<>>
        ELSE SubSeq(noFragment, mark, Len(noFragment))

\* Decoding of a name or a value by URLSearchParams: '+' is a space.  (No
\* string of the model holds a '%'.)
FormDecode(str) == [i \in 1..Len(str) |-> IF str[i] = "+" THEN " " ELSE str[i]]

\* new URLSearchParams(search): the pairs <<name, value>> in their order.
SearchParams(search) ==
    LET body == IF Len(search) > 0 /\ search[1] = "?" THEN Tail(search) ELSE search
        parts == SelectSeq(Split(body, "&"), LAMBDA part : Len(part) > 0)
    IN  [i \in 1..Len(parts) |->
            LET eq == IndexOf(parts[i], "=")
            IN  IF eq = 0 THEN <<FormDecode(parts[i]), <<>> >>
                ELSE <<FormDecode(SubSeq(parts[i], 1, eq - 1)),
                       FormDecode(SubSeq(parts[i], eq + 1, Len(parts[i])))>>]

\* params.get(name): <<>> for null, <<value>> for the first value of the name.
ParamsGet(params, name) ==
    LET hits == SelectSeq(params, LAMBDA pair : pair[1] = name)
    IN  IF Len(hits) = 0 THEN <<>> ELSE <<hits[1][2]>>

HexChars ==
    {"0", "1", "2", "3", "4", "5", "6", "7", "8", "9",
     "a", "b", "c", "d", "e", "f", "A", "B", "C", "D", "E", "F"}

UpperHexChars ==
    {"0", "1", "2", "3", "4", "5", "6", "7", "8", "9", "A", "B", "C", "D", "E", "F"}

\* Mutant: the test without the flag i.
IsHexColourUpper(c) ==
    Len(c) = 7 /\ c[1] = "#" /\ \A i \in 2..7 : c[i] \in UpperHexChars

\* /^#[0-9A-F]{6}$/i.test(c)
IsHexColour(c) ==
    Len(c) = 7 /\ c[1] = "#" /\ \A i \in 2..7 : c[i] \in HexChars

\* parsePaletteFromURL() on a page whose location.search is `search`: <<>>
\* for null, <<validColors>> for a list.
parsePaletteFromURL(search) ==
    LET paletteParam == ParamsGet(SearchParams(search), PaletteKey)
    IN  IF paletteParam = <<>> \/ paletteParam[1] = <<>> THEN <<>>
        ELSE LET pieces == Split(paletteParam[1], "-")
                 colours == [i \in 1..Len(pieces) |-> <<"#">> \o pieces[i]]
                 validColors == SelectSeq(colours, IsHexColour)
             IN  IF Len(validColors) > 0 THEN <<validColors>> ELSE <<>>

\* Colours of the form '#' plus six hex digits, and strings that are not.
ValidColours ==
    { <<"#", "0", "0", "0", "0", "0", "0">>, <<"#", "a", "b", "c", "d", "e", "f">>,
      <<"#", "A", "B", "C", "D", "E", "F">>, <<"#", "1", "9", "a", "F", "0", "e">> }

InvalidColours ==
    { <<"#", "1", "2", "3", "4", "5">>, <<"#", "g", "g", "g", "g", "g", "g">>,
      <<"r", "e", "d">> }

\* The lists handed to generateShareableURL.
ShareLists == SeqsUpTo(ValidColours \cup InvalidColours, MaxShared)

\* Other URLs the page is opened at, each with its palette parameter as it
\* stands in the URL (<<>> when it has none).
OtherUrls ==
    { [url |-> BaseUrl, palette |-> <<>>],
      [url |-> BaseUrl \o <<"?">>, palette |-> <<>>],
      [url |-> BaseUrl \o <<"?", "o", "=", "1">>, palette |-> <<>>],
      [url |-> BaseUrl \o <<"#", "?">> \o PaletteKey \o <<"=", "0", "0", "0", "0", "0", "0">>,
       palette |-> <<>>],
      [url |-> BaseUrl \o <<"?">> \o PaletteKey \o <<"=">>, palette |-> << <<>> >>],
      [url |-> BaseUrl \o <<"?">> \o PaletteKey, palette |-> << <<>> >>],
      [url |-> BaseUrl \o <<"?">> \o PaletteKey \o <<"=", "-", "-">>,
       palette |-> << <<"-", "-">> >>],
      [url |-> BaseUrl \o <<"?", "o", "=", "1", "&">> \o PaletteKey
                       \o <<"=", "a", "b", "c", "d", "e", "f", "-", "x">>,
       palette |-> << <<"a", "b", "c", "d", "e", "f", "-", "x">> >>] }

\* generateShareableURL(colors) is called and the page is opened at the URL
\* it returned.
Share ==
    /\ urlStep = "start"
    /\ \E list \in ShareLists :
        /\ shareColors' = list
        /\ href' = generateShareableURL(list)
    /\ urlStep' = "shared"
    /\ UNCHANGED <<engineVars, evVars, uiVars, moreVars, parsed>>

\* The page is opened at a URL that generateShareableURL did not make.
OpenOther ==
    /\ urlStep = "start"
    /\ \E other \in OtherUrls : href' = other.url
    /\ urlStep' = "opened"
    /\ UNCHANGED <<engineVars, evVars, uiVars, moreVars, shareColors, parsed>>

\* parsePaletteFromURL() is called on the page.
Parse ==
    /\ urlStep \in {"shared", "opened"}
    /\ parsed' = parsePaletteFromURL(SearchOf(href))
    /\ urlStep' = IF urlStep = "shared" THEN "parsedShared" ELSE "parsedOther"
    /\ UNCHANGED <<engineVars, evVars, uiVars, moreVars, shareColors, href>>

NextShare == Share \/ OpenOther \/ Parse

\* The shareable URL: made, opened, parsed.
SpecShare == Init /\ [][NextShare]_vars

\* ------------------------------------------------------- words of the claims
Black == CopyOf(<<0, 0, 0>>)
White == CopyOf(<<255, 255, 255>>)
Within5(c, corner) == RatLess(colorDistanceSq(c, corner), Rat(25, 1))

\* d(pixel, centroid i) < d(pixel, centroid m), or equal with m the lower index
Beats(pixel, m, i) ==
    LET dm == colorDistanceSq(CopyOf(pixel), centroids[m + 1])
        di == colorDistanceSq(CopyOf(pixel), centroids[i + 1])
    IN  RatLess(dm, di) \/ (~RatLess(di, dm) /\ m < i)

\* Cluster i (0-based) receives no point from the current centroids.
Starved(i) ==
    \A j \in 1..Len(pixels) : \E m \in 0..(k - 1) : m # i /\ Beats(pixels[j], m, i)

AllSameColour ==
    Len(pixels) > 0 /\ \A j \in 1..Len(pixels) : pixels[j] = pixels[1]

TwoGroups ==
    /\ \E j \in 1..Len(pixels) : Within5(CopyOf(pixels[j]), Black)
    /\ \E j \in 1..Len(pixels) : Within5(CopyOf(pixels[j]), White)
    /\ \A j \in 1..Len(pixels) :
        Within5(CopyOf(pixels[j]), Black) \/ Within5(CopyOf(pixels[j]), White)

OneNearEach(cents) ==
    \/ Within5(cents[1], Black) /\ Within5(cents[2], White)
    \/ Within5(cents[1], White) /\ Within5(cents[2], Black)

\* ---------------------------------------------------------------------- C1
\* C1: for every k >= 1 and every pixel list, the centroid set never has more
\* than k entries, and it has exactly k entries when seeding has ended, after
\* the update step of every pass and in the returned array, also when some
\* clusters receive no point.
C1_ExactlyKCentroids ==
    /\ Len(centroids) <= k
    /\ pc \in {"iterate", "done"} => Len(centroids) = k

\* A returned set of a call on a non-empty list in which a cluster never
\* received a point, after more than one pass.
C1_Witness ==
    /\ pc = "done" /\ Len(pixels) > 0 /\ iteration >= 1
    /\ \E i \in 0..(k - 1) : i \notin fed

\* ---------------------------------------------------------------------- C2
\* C2 as stated: every channel of every centroid kMeansClustering returns is
\* an integer in [0, 255].
C2_ReturnedChannelsAreIntegers ==
    pc = "done" =>
        \A i \in 1..Len(centroids) :
            /\ centroids[i].d = 1
            /\ \A ch \in 1..3 : centroids[i].v[ch] \in 0..ChannelMax

\* C2 amended: every channel of every centroid kMeansClustering returns is a
\* number in [0, 255], not necessarily an integer (the engine does not round);
\* Math.round, which the caller applies to it, gives an integer in [0, 255].
C2_ReturnedChannelsInRange ==
    pc = "done" =>
        \A i \in 1..Len(centroids) : \A ch \in 1..3 :
            /\ 0 <= centroids[i].v[ch]
            /\ centroids[i].v[ch] <= ChannelMax * centroids[i].d
            /\ MathRound(centroids[i].v[ch], centroids[i].d) \in 0..ChannelMax

\* A returned set that holds a mean of several points that is no integer,
\* next to a centroid that never moved.
C2_Witness ==
    /\ pc = "done" /\ Len(pixels) > 0
    /\ \E i \in 1..Len(centroids) : centroids[i].d > 1 /\ (i - 1) \in fed
    /\ \E i \in 1..Len(centroids) : (i - 1) \notin fed

\* ---------------------------------------------------------------------- C3
\* C3: every call terminates: under fair draws seeding ends and the call
\* returns; the refinement loop makes at most maxIterations passes; when the
\* cap ends the loop, the centroids of the last pass are returned as they are.
C3_Terminates ==
    /\ <>(pc = "done")
    /\ [](iteration <= maxIterations)
    /\ [][(pc = "iterate" /\ iteration >= maxIterations)
            => (pc' = "done" /\ centroids' = centroids)]_vars

\* A call on a non-empty list that returned at the cap, not converged.
C3_Witness ==
    /\ pc = "done" /\ Len(pixels) > 0
    /\ ~converged /\ iteration = maxIterations

\* ---------------------------------------------------------------------- C4
\* C4: a pass leaves the centroid of every cluster that receives no point
\* exactly as it was; a centroid whose cluster received no point in any pass
\* is returned equal to its seed, in its slot of the k-length result.
C4_EmptyClusterKeepsCentroid ==
    /\ [][(pc = "iterate" /\ iteration < maxIterations) =>
            \A i \in 0..(k - 1) :
                Starved(i) => /\ Len(centroids') = k
                              /\ centroids'[i + 1] = centroids[i + 1]]_vars
    /\ [](pc = "done" =>
            \A i \in 0..(k - 1) :
                i \notin fed => /\ Len(centroids) = k
                                /\ centroids[i + 1] = seeds[i + 1])

\* A call of several passes returned with a cluster that never got a point,
\* while another centroid moved away from its seed.
C4_Witness ==
    /\ pc = "done" /\ Len(pixels) > 0 /\ iteration >= 1
    /\ \E i \in 0..(k - 1) : i \notin fed
    /\ \E i \in 0..(k - 1) : centroids[i + 1] # seeds[i + 1]

\* ---------------------------------------------------------------------- C5
\* C5: on a non-empty list of one colour c the first pass converges (the call
\* makes exactly one pass), every centroid seeded from the list is returned
\* equal to c, so at least one is, and all k are when the list has k points.
C5_SingleColour ==
    AllSameColour =>
        /\ iteration = 0
        /\ pc = "done" =>
            /\ converged
            /\ \A i \in 1..Cardinality(usedIndices) : centroids[i] = CopyOf(pixels[1])
            /\ \E i \in 1..Len(centroids) : centroids[i] = CopyOf(pixels[1])
            /\ Len(pixels) >= k => \A i \in 1..k : centroids[i] = CopyOf(pixels[1])

\* A returned one-colour call of several points, with a randomly filled slot.
C5_Witness ==
    /\ pc = "done" /\ AllSameColour /\ Len(pixels) >= 2 /\ k > Len(pixels)
    /\ Cardinality(usedIndices) = Len(pixels)

\* ---------------------------------------------------------------------- C6
\* C6 as stated: two groups, one near (0,0,0) and one near (255,255,255),
\* k = 2, default cap: for every choice of the seeds the call converges in
\* fewer than maxIterations passes and returns one centroid within distance 5
\* of each corner.
C6_TwoGroupsEverySeed ==
    (pc = "done" /\ k = 2 /\ maxIterations = DefaultMaxIterations /\ TwoGroups) =>
        /\ converged
        /\ iteration + 1 < maxIterations
        /\ OneNearEach(centroids)

\* C6 amended: the same, for every choice of the seeds that takes one seed
\* from each group.
C6_TwoGroupsSplitSeeds ==
    (pc = "done" /\ k = 2 /\ maxIterations = DefaultMaxIterations /\ TwoGroups
        /\ OneNearEach(seeds)) =>
        /\ converged
        /\ iteration + 1 < maxIterations
        /\ OneNearEach(centroids)

\* A two-group call with one seed per group that needed a second pass.
C6_Witness ==
    /\ pc = "done" /\ k = 2 /\ maxIterations = DefaultMaxIterations /\ TwoGroups
    /\ OneNearEach(seeds) /\ Len(pixels) >= 3 /\ iteration = 1


\* ---------------------------------------------------------------------- C7
\* C7: when the buffer was sampled and the filter kept no pixel,
\* extractFromImageElement has returned exactly ['#000000'], and the
\* clustering engine was not run: nothing was seeded and no pass was made.
C7_EmptySampleGivesBlack ==
    (caller = "extract" /\ canvas[1] > 0 /\ canvas[2] > 0 /\ Len(pixels) = 0) =>
        /\ pc = "returned"
        /\ result = << <<"#", "0", "0", "0", "0", "0", "0">> >>
        /\ centroids = <<>> /\ seeds = <<>> /\ usedIndices = {}
        /\ iteration = 0 /\ fed = {}

\* An image whose visited pixels are each dropped for some reason, the
\* remaining ones being pure white.
C7_Witness ==
    /\ caller = "extract" /\ pc = "returned" /\ Len(pixels) = 0
    /\ Len(img.shown) >= 2 /\ img.shown[1] # img.shown[2]
    /\ img.rest = <<255, 255, 255, 255>>

\* ---------------------------------------------------------------------- C8
\* Pixel number t (from 1) among the visited ones: pixel 4 (t - 1) of the
\* buffer.
VisitedPixel(t) == PixelAt(img, 4 * (t - 1))

\* The visited pixels the stated filter keeps.
KeptTurns ==
    { t \in 1..((canvas[1] * canvas[2] + 3) \div 4) :
        /\ VisitedPixel(t)[4] > 128
        /\ VisitedPixel(t)[1] + VisitedPixel(t)[2] + VisitedPixel(t)[3] > 30
        /\ VisitedPixel(t)[1] + VisitedPixel(t)[2] + VisitedPixel(t)[3] < 735 }

\* C8: the sample set holds a visited pixel if and only if its alpha is
\* above 128 and its sum R+G+B is above 30 and below 735; the kept pixels
\* stand in scan order, each without its alpha.
C8_SampleIsFilteredScan ==
    (caller = "extract" /\ canvas[1] > 0 /\ canvas[2] > 0) =>
        LET kept == KeptTurns
        IN  /\ Len(pixels) = Cardinality(kept)
            /\ \A t \in kept :
                  pixels[Cardinality({ u \in kept : u <= t })] =
                      <<VisitedPixel(t)[1], VisitedPixel(t)[2], VisitedPixel(t)[3]>>

\* Two different pixels are kept, the second visited one at alpha 129, and
\* the rest of the buffer is dropped.
C8_Witness ==
    /\ caller = "extract" /\ Len(pixels) = 2 /\ pixels[1] # pixels[2]
    /\ Len(img.shown) = 2 /\ img.shown[2][4] = 129

\* ---------------------------------------------------------------------- C9
\* C9: for every image of positive width and height the canvas that is
\* allocated and scanned is at most 200 px wide and at most 200 px high, and
\* both dimensions are scaled by one factor (up to the integer part the
\* canvas keeps: width * img.height and height * img.width differ by less
\* than the larger image dimension).
C9_CanvasWithinCap ==
    caller = "extract" =>
        /\ canvas[1] <= 200 /\ canvas[2] <= 200
        /\ LET cross == canvas[1] * img.height - canvas[2] * img.width
               larger == IF img.width >= img.height THEN img.width ELSE img.height
           IN  cross < larger /\ -cross < larger

\* The 4000x3000 image, sampled on a 200x150 canvas.
C9_Witness ==
    /\ caller = "extract" /\ pc = "returned"
    /\ img.width = 4000 /\ img.height = 3000 /\ canvas = <<200, 150>>

\* --------------------------------------------------------------------- C10
LowerHex == { "0", "1", "2", "3", "4", "5", "6", "7", "8", "9",
              "a", "b", "c", "d", "e", "f" }

HexValue(c) == CHOOSE n \in 0..15 : HexDigits[n + 1] = c

\* The two characters from position j on read as a hexadecimal number.
ByteRead(str, j) == 16 * HexValue(str[j]) + HexValue(str[j + 1])

\* n is the integer nearest to num / den (the upper one of two).
IsNearest(n, num, den) ==
    2 * n * den - den <= 2 * num /\ 2 * num < 2 * n * den + den

\* C10: on a non-empty sample extractFromImageElement returns exactly k
\* strings; each is '#' and six lowercase hexadecimal digits, two per
\* channel, that read as the rounded channels of the centroid of the same
\* position.
C10_KHexStrings ==
    (caller = "extract" /\ pc = "returned" /\ Len(pixels) > 0) =>
        /\ Len(result) = k
        /\ Len(centroids) = k
        /\ \A i \in 1..Len(result) :
            /\ Len(result[i]) = 7
            /\ result[i][1] = "#"
            /\ \A j \in 2..7 : result[i][j] \in LowerHex
            /\ \A ch \in 1..3 :
                  IsNearest(ByteRead(result[i], 2 * ch), centroids[i].v[ch],
                            centroids[i].d)

\* Several strings are returned, one for a centroid that is no integer and
\* has a channel below 16.
C10_Witness ==
    /\ caller = "extract" /\ pc = "returned" /\ Len(result) >= 2
    /\ \E i \in 1..Len(result) : \E ch \in 1..3 :
          centroids[i].d > 1 /\ result[i][2 * ch] = "0"


\* ------------------------------------------------- words of C11, C12, C13
FileReadFailed(c) == reader[c] = "failed"
DecodeFailed(c) == imgEl[c] = "failed"
ContextMissing(c) == ctx[c] = "null"
FailedCall(c) == FileReadFailed(c) \/ DecodeFailed(c) \/ ContextMissing(c)
Settled(c) == promise[c] \in {"resolved", "rejected"}

\* The centroids kMeansClustering returns from the seeds `cents`, pass by pass.
RECURSIVE RunPasses(_, _, _, _, _)
RunPasses(pix, cents, kk, it, cap) ==
    IF it >= cap THEN cents
    ELSE LET assigned == AssignPixels(pix, cents, kk)
             newCentroids == newCentroidsOf(assigned, cents, kk)
         IN  IF Converged(cents, newCentroids) THEN newCentroids
             ELSE RunPasses(pix, newCentroids, kk, it + 1, cap)

\* Every centroid list the two seeding loops can leave: copies of pixels at
\* distinct indices, then random colours.
SeedLists(pix, kk) ==
    LET m == IF kk < Len(pix) THEN kk ELSE Len(pix)
        picks == { f \in [1..m -> 1..Len(pix)] :
                     \A a \in 1..m : \A b \in 1..m : a # b => f[a] # f[b] }
        fills == [1..(kk - m) -> RandomTriples]
    IN  { [i \in 1..kk |-> IF i <= m THEN CopyOf(pix[f[i]]) ELSE g[i - m]] :
            f \in picks, g \in fills }

\* Every list of strings extractFromImageElement(image, n) can return when it
\* is the only call there is; none when it throws.
SoloColours(image, n) ==
    LET cw == canvasWidth(image.width, image.height)
        ch == canvasHeight(image.width, image.height)
        sampled == SamplePixels(image, cw, ch)
    IN  IF cw = 0 \/ ch = 0 THEN {}
        ELSE IF IsEmptySample(sampled) THEN { <<BlackHex>> }
        ELSE { [i \in 1..n |->
                  HexOf(RunPasses(sampled, sd, n, 0, DefaultMaxIterations)[i])] :
               sd \in SeedLists(sampled, n) }

SoloTable == [im \in EventImages |-> [n \in EventCounts |-> SoloColours(im, n)]]

\* --------------------------------------------------------------------- C11
\* C11: when the file read fails, the image fails to decode or the canvas
\* context is missing, the promise of that call is rejected (as soon as the
\* handler that met the failure has ended), it is never resolved, there are
\* no colours, kMeansClustering is never entered for the call, and nothing
\* is tried again: the reader and the image stay as the failure left them.
C11_FailureRejects ==
    /\ [](\A c \in Calls :
            /\ promise[c] # "none" /\ ~file[c].readable /\ reader[c] # "reading"
                  => FileReadFailed(c)
            /\ imgEl[c] \in {"loaded", "failed"} /\ ~file[c].decodable
                  => DecodeFailed(c)
            /\ FailedCall(c) =>
                  /\ promise[c] # "resolved"
                  /\ outcome[c] = <<>>
                  /\ engineRuns[c] = 0
                  /\ active # c => promise[c] = "rejected" /\ settles[c] = 1)
    /\ [][\A c \in Calls :
            FailedCall(c) =>
                /\ reader'[c] = reader[c]
                /\ imgEl'[c] = imgEl[c]
                /\ ctx'[c] = ctx[c]
                /\ engineRuns'[c] = 0
                /\ promise'[c] # "resolved"]_vars

\* One call was rejected for a missing context, the other for a failed read
\* or decode.
C11_Witness ==
    \E c \in Calls : \E d \in Calls :
        /\ ContextMissing(c) /\ promise[c] = "rejected"
        /\ (FileReadFailed(d) \/ DecodeFailed(d)) /\ promise[d] = "rejected"

\* --------------------------------------------------------------------- C12
\* C12: the load handler of a call (sampling, clustering) runs only once the
\* reader and the image of the call have loaded; while it runs no other
\* handler runs: no reader or image changes state and no other promise
\* settles; a promise settles at most once and keeps its state and colours;
\* and with the platform firing the events, every pending promise settles.
C12_SettlesOnceAfterLoad ==
    /\ [](/\ pc # "idle" => active \in Calls
          /\ \A c \in Calls :
               /\ active = c \/ engineRuns[c] > 0 \/ ctx[c] # "unasked"
                     => reader[c] = "loaded" /\ imgEl[c] = "loaded"
               /\ settles[c] <= 1
               /\ Settled(c) <=> settles[c] = 1)
    /\ [][/\ active # 0 =>
               /\ reader' = reader /\ imgEl' = imgEl /\ file' = file
               /\ active' \in {active, 0}
               /\ \A c \in Calls : c # active =>
                     promise'[c] = promise[c] /\ outcome'[c] = outcome[c]
           /\ \A c \in Calls : Settled(c) =>
                     promise'[c] = promise[c] /\ outcome'[c] = outcome[c]]_vars
    /\ \A c \in Calls : (promise[c] = "pending") ~> Settled(c)

\* The handler of the second call is clustering while the first call, whose
\* promise was resolved with two colours, is over.
C12_Witness ==
    /\ active = 2 /\ pc = "iterate"
    /\ promise[1] = "resolved" /\ Len(outcome[1]) = 2
    /\ promise[2] = "pending"

\* --------------------------------------------------------------------- C13
\* C13: a load handler starts from empty locals and works on the image, the
\* sample and the colour count of its own call, and the colours a promise is
\* resolved with are colours that extractFromImageElement can return for the
\* image and the colour count of that call alone, whatever the other call
\* does and in whatever order the events come.
C13_CallsIndependent ==
    /\ pc = "idle" => pixels = <<>> /\ centroids = <<>> /\ canvas = <<0, 0>>
    /\ \A c \in Calls :
        /\ active = c /\ pc \in {"seed", "iterate", "done"} =>
              /\ img = file[c].picture
              /\ pixels = SamplePixels(img, canvas[1], canvas[2])
              /\ k = count[c]
              /\ \A i \in 1..Len(seeds) :
                    seeds[i] \in RandomTriples
                    \/ \E j \in 1..Len(pixels) : seeds[i] = CopyOf(pixels[j])
        /\ promise[c] = "resolved" =>
              outcome[c] \in SoloTable[file[c].picture][count[c]]

\* The second call was resolved with two colours while the image of the
\* first call, made earlier and of another file, is still decoding.
C13_Witness ==
    /\ promise[2] = "resolved" /\ Len(outcome[2]) = 2
    /\ imgEl[1] = "decoding" /\ file[1] # file[2] /\ file[1].decodable

\* ------------------------------------------------- words of C14, C15, C16
\* Every locked column of `old` is in `new` at its place, the same record:
\* same id, same hex, locked.
LockedKept(old, new) ==
    \A i \in 1..Len(old) : old[i].locked => i <= Len(new) /\ new[i] = old[i]

\* --------------------------------------------------------------------- C14
\* C14: every step of regeneratePalette (usePalette) and every step of
\* generateNewPalette (App) leaves each column that was locked before it at
\* the same position with the same id and the same hex, still locked; so it
\* is after any number of regenerations in a row.
C14_LockedColumnsKept ==
    [][/\ last'.op = "regeneratePalette" => LockedKept(columns, columns')
       /\ last'.op = "generateNewPalette" => LockedKept(colors, colors')]_vars

\* regeneratePalette has just given new colours to a palette with a locked
\* column.
C14_Witness ==
    /\ last.op = "regeneratePalette" /\ last.changed
    /\ \E i \in 1..Len(columns) : columns[i].locked
    /\ \E i \in 1..Len(columns) : ~columns[i].locked

\* --------------------------------------------------------------------- C15
\* C15: the palette of usePalette, mounted with at least 2 columns, has at
\* least 2 columns after any sequence of addColumn, removeColumn,
\* regeneratePalette, toggleLock, updateColor and reorderColumns, and
\* removeColumn on a palette of 2 columns or fewer leaves the columns as they
\* were.
C15_AtLeastTwoColumns ==
    /\ [](mounted = "hook" => Len(columns) >= 2)
    /\ [][last'.op = "removeColumn" /\ Len(columns) <= 2 => columns' = columns]_vars

\* removeColumn was called with the id of a column of a palette of 2, which
\* is as it was.
C15_Witness ==
    /\ last.op = "removeColumn" /\ last.hit /\ ~last.changed
    /\ Len(columns) = 2

\* --------------------------------------------------------------------- C16
\* C16: the palette of usePalette, mounted with the default 5 columns, never
\* has more than 10 columns, whatever operations are made on it.
C16_AtMostTenColumns ==
    mounted = "hook" /\ initialCount = DefaultCount => Len(columns) <= ColumnLimit

\* ---------------------------------------------------------------- words of C17
\* The pieces of a palette parameter between its '-' characters, read off
\* the positions of the '-'.
PiecesOf(value) ==
    { SubSeq(value, a, b) :
        <<a, b>> \in { ab \in (1..(Len(value) + 1)) \X (0..Len(value)) :
                         /\ ab[1] <= ab[2] + 1
                         /\ ab[1] = 1 \/ value[ab[1] - 1] = "-"
                         /\ ab[2] = Len(value) \/ value[ab[2] + 1] = "-"
                         /\ \A i \in ab[1]..ab[2] : value[i] # "-" } }

UpperDigits == <<"0", "1", "2", "3", "4", "5", "6", "7",
                 "8", "9", "A", "B", "C", "D", "E", "F">>

\* '#' plus six hex digits, read character by character.
SixDigitColour(c) ==
    /\ Len(c) = 7
    /\ c[1] = "#"
    /\ \A i \in 2..7 :
          \E n \in 0..15 : c[i] = HexDigits[n + 1] \/ c[i] = UpperDigits[n + 1]

\* --------------------------------------------------------------------- C17
\* C17: for a list of one colour or more, each '#' plus six hex digits,
\* parsePaletteFromURL on the page opened at the URL of generateShareableURL
\* returns the list, the same colours in the same order; and it returns null
\* on a page whose URL has no palette parameter or one none of whose pieces
\* is a six-digit colour.
C17_ShareRoundTrip ==
    /\ /\ urlStep = "parsedShared"
       /\ Len(shareColors) > 0
       /\ \A i \in 1..Len(shareColors) : SixDigitColour(shareColors[i])
       => parsed = <<shareColors>>
    /\ urlStep = "parsedOther" =>
         \A other \in OtherUrls :
           /\ other.url = href
           /\ \/ other.palette = <<>>
              \/ \A piece \in PiecesOf(other.palette[1]) :
                    ~SixDigitColour(<<"#">> \o piece)
           => parsed = <<>>

\* A list of two colours, with letters in both cases, has come back.
C17_Witness ==
    /\ urlStep = "parsedShared"
    /\ Len(shareColors) = 2
    /\ shareColors[1] # shareColors[2]
    /\ \A i \in 1..2 : SixDigitColour(shareColors[i])
    /\ shareColors[1][2] = "a" /\ shareColors[2][2] = "A"
    /\ parsed = <<shareColors>>

\* ---------------------------------------------------------- words of C18-C20
\* The step is one pass of the refinement loop.
PassStep == pc = "iterate" /\ iteration < maxIterations

\* How many entries of the list s are the value x.
Occurrences(s, x) == Cardinality({ j \in 1..Len(s) : s[j] = x })

\* The centroids of the first pass are the seeds: the state is the one right
\* after the first pass.
AfterFirstPass ==
    /\ Len(clusters) = k
    /\ \/ pc = "done" /\ iteration = 0 /\ converged
       \/ pc = "iterate" /\ iteration = 1

\* --------------------------------------------------------------------- C18
\* C18: in each pass of kMeansClustering the k clusters partition the sample:
\* every pixel is in exactly one cluster (each colour as often in the
\* clusters together as in the sample), and the cluster of a pixel is the
\* one whose centroid, of those the pass started with, is nearest to it, the
\* lowest index among the nearest ones.
C18_NearestLowestIndex ==
    [][PassStep =>
         /\ Len(clusters') = k
         /\ \A j \in 1..Len(pixels) :
               LET holders == { i \in 1..k : Occurrences(clusters'[i], pixels[j]) > 0 }
               IN  /\ Cardinality(holders) = 1
                   /\ \A i \in holders :
                         /\ Occurrences(clusters'[i], pixels[j])
                              = Occurrences(pixels, pixels[j])
                         /\ \A m \in 0..(k - 1) :
                               m # i - 1 => Beats(pixels[j], i - 1, m)
         /\ \A i \in 1..k : \A j \in 1..Len(clusters'[i]) :
               Occurrences(pixels, clusters'[i][j]) > 0]_vars

\* Two seeds were the same colour: the pixels of that colour went to the
\* lower of the two clusters, and another cluster received other pixels.
C18_Witness ==
    /\ AfterFirstPass
    /\ k = 3
    /\ \E a \in 1..k : \E b \in (a + 1)..k :
          /\ seeds[a] = seeds[b]
          /\ Len(clusters[a]) > 1
          /\ Len(clusters[b]) = 0
          /\ \E c \in 1..k : c # a /\ Len(clusters[c]) > 0

\* The total of channel ch over the first n points of a cluster.
RECURSIVE ChannelTotal(_, _, _)
ChannelTotal(cluster, ch, n) ==
    IF n = 0 THEN 0 ELSE ChannelTotal(cluster, ch, n - 1) + cluster[n][ch]

\* --------------------------------------------------------------------- C19
\* C19: after a pass of kMeansClustering, the centroid of every cluster that
\* received a point in the pass is the mean of the points of the cluster,
\* channel by channel (centroid * size = total), and each of its channels
\* lies between the least and the greatest value of that channel in the
\* cluster.
C19_CentroidIsMean ==
    Len(clusters) = k =>
      \A i \in 1..k :
        Len(clusters[i]) > 0 =>
          \A ch \in 1..3 :
            LET size == Len(clusters[i])
                c == centroids[i]
            IN  /\ c.d > 0
                /\ c.v[ch] * size = c.d * ChannelTotal(clusters[i], ch, size)
                /\ \E j \in 1..size : clusters[i][j][ch] * c.d <= c.v[ch]
                /\ \E j \in 1..size : c.v[ch] <= clusters[i][j][ch] * c.d

\* After a second pass or a later one, a cluster of three points or more
\* that are not all one colour has a centroid that is no integer triple,
\* while another cluster received points too.
C19_Witness ==
    /\ pc = "done"
    /\ iteration >= 1
    /\ Len(clusters) = k
    /\ \E i \in 1..k :
          /\ Len(clusters[i]) >= 3
          /\ \E j \in 1..Len(clusters[i]) : clusters[i][j] # clusters[i][1]
          /\ centroids[i].d > 1
          /\ \E m \in 1..k : m # i /\ Len(clusters[m]) > 0

\* The square of the distance a centroid moved by, as an exact rational; the
\* distance is below 1 exactly when its square is.
MovedSq(old, new) ==
    LET dr == old.v[1] * new.d - new.v[1] * old.d
        dg == old.v[2] * new.d - new.v[2] * old.d
        db == old.v[3] * new.d - new.v[3] * old.d
    IN  [num |-> dr * dr + dg * dg + db * db,
         den |-> (old.d * new.d) * (old.d * new.d)]

\* Every centroid moved by less than 1.0 from olds to news.
AllMovedLessThanOne(olds, news) ==
    \A i \in 1..Len(olds) : MovedSq(olds[i], news[i]).num < MovedSq(olds[i], news[i]).den

\* --------------------------------------------------------------------- C20
\* C20: a pass of kMeansClustering in which every centroid moved by less
\* than 1.0 ends the loop, the loop counter still below maxIterations, and
\* the centroids of that pass are the ones returned; a pass in which some
\* centroid moved by 1.0 or more is followed by the next turn of the loop,
\* the counter one higher.  So the engine has stopped with the counter below
\* maxIterations exactly when the last pass moved every centroid by less
\* than 1.0, and it never stops that way without such a pass.
C20_StopsExactlyOnConvergence ==
    /\ [][PassStep =>
            IF AllMovedLessThanOne(centroids, centroids')
            THEN pc' = "done" /\ iteration' = iteration /\ converged'
            ELSE pc' = "iterate" /\ iteration' = iteration + 1 /\ ~converged']_vars
    /\ [][pc = "done" => centroids' = centroids /\ pc' = "done"]_vars
    /\ [](pc = "done" => (iteration < maxIterations <=> converged))
    /\ [](pc = "done" /\ iteration < maxIterations => Len(clusters) = k)

\* The first pass moved a centroid by exactly 1.0 and no centroid by more:
\* the engine went on to a second turn of the loop.
C20_Witness ==
    /\ pc = "iterate"
    /\ iteration = 1
    /\ maxIterations = DefaultMaxIterations
    /\ Len(clusters) = k
    /\ k >= 2
    /\ \A i \in 1..k : MovedSq(seeds[i], centroids[i]).num <= MovedSq(seeds[i], centroids[i]).den
    /\ \E i \in 1..k : MovedSq(seeds[i], centroids[i]).num = MovedSq(seeds[i], centroids[i]).den
    /\ \E i \in 1..k : MovedSq(seeds[i], centroids[i]).num = 0

\* ---------------------------------------------------------------- words of C21
\* Seeding is over and its centroids are in seeds.
Seeded == pc \in {"iterate", "done"} /\ Len(seeds) = k

\* The ways of giving each of the first m seeds a sample index of its own.
SeedIndexings(m) ==
    { f \in [1..m -> usedIndices] : \A a \in 1..m : \A b \in 1..m : f[a] = f[b] => a = b }

\* Every channel of the triple c lies in [0, 255].
ChannelsInRange(c) ==
    \A ch \in 1..3 : 0 <= c.v[ch] /\ c.v[ch] <= ChannelMax * c.d

\* The first m seeds are the sample entries at m different indices, the
\* used ones, and the seeds after them are triples with channels in [0, 255].
SeedsFromDistinctIndices(m) ==
    /\ Cardinality(usedIndices) = m
    /\ \E f \in SeedIndexings(m) : \A a \in 1..m : seeds[a] = CopyOf(pixels[f[a] + 1])
    /\ \A a \in (m + 1)..k : ChannelsInRange(seeds[a])

\* The colours in the sample.
ColoursOf(pix) == { pix[j] : j \in 1..Len(pix) }

Least(a, b) == IF a < b THEN a ELSE b

\* --------------------------------------------------------------------- C21
\* C21: when seeding is over, the centroids taken from the sample are at
\* different indices and are pairwise different points, as many as the
\* sample has different points up to k; the remaining slots, which exist
\* exactly when there are fewer than k different points, hold triples whose
\* channels lie in [0, 255].
C21_SeedsAreDistinctPoints ==
    Seeded =>
      LET m == Least(k, Cardinality(ColoursOf(pixels)))
      IN  /\ SeedsFromDistinctIndices(m)
          /\ \A a \in 1..m : \A b \in 1..m : a # b => seeds[a] # seeds[b]

\* ---------------------------------------------------------------- words of C22
\* kMeansClustering is running on, or has returned from, an empty list.
EmptyCall == pc # "idle" /\ caller = "direct" /\ Len(pixels) = 0

\* No centroid is the quotient of a division by 0.
NoZeroDivision == \A i \in 1..Len(centroids) : centroids[i].d > 0

\* --------------------------------------------------------------------- C22
\* C22 as amended: called with an empty list and k >= 1, kMeansClustering
\* divides by no zero and ends: it returns, after one pass in which every
\* cluster is empty, the k random triples of its seeding, channels in
\* [0, 255], and raises no error.
C22_EmptyInputReturnsSeeds ==
    /\ [](EmptyCall => NoZeroDivision /\ usedIndices = {})
    /\ [](EmptyCall /\ pc = "done" =>
            /\ Len(centroids) = k
            /\ centroids = seeds
            /\ \A i \in 1..k : ChannelsInRange(centroids[i])
            /\ iteration = 0 /\ converged
            /\ Len(clusters) = k /\ \A i \in 1..k : Len(clusters[i]) = 0)
    /\ (EmptyCall ~> (EmptyCall /\ pc = "done"))

\* C22: called with an empty list and k >= 1, kMeansClustering divides by no
\* zero and does not return centroids: the empty input is an error.
C22_EmptyInputIsError ==
    EmptyCall => NoZeroDivision /\ pc # "done"

\* Three centroids were asked of an empty list, and three random triples,
\* not all the same, have been returned.
C22_Witness ==
    /\ EmptyCall /\ pc = "done"
    /\ k = 3
    /\ Len(centroids) = 3
    /\ centroids[1] # centroids[2]
    /\ Len(clusters) = 3 /\ \A i \in 1..3 : Len(clusters[i]) = 0

\* ---------------------------------------------------------------- words of C23
\* The pixels of the scaled buffer, in row-major order from 0.
BufferPixels == 0..(canvas[1] * canvas[2] - 1)

\* The pixel indices 0, 4, 8, ... of the buffer.
EveryFourth == { p \in BufferPixels : p % 4 = 0 }

\* The colour of pixel p of the buffer, and whether the filter keeps it.
ColourAt(p) == <<PixelAt(img, p)[1], PixelAt(img, p)[2], PixelAt(img, p)[3]>>
PassesFilter(p) ==
    /\ PixelAt(img, p)[4] > AlphaThreshold
    /\ ColourAt(p)[1] + ColourAt(p)[2] + ColourAt(p)[3] > DarkThreshold
    /\ ColourAt(p)[1] + ColourAt(p)[2] + ColourAt(p)[3] < LightThreshold

\* --------------------------------------------------------------------- C23
\* C23: the sample set is read off the pixels 0, 4, 8, ... of the scaled
\* buffer and off no other pixel: its entries are, in the order of the
\* buffer, the colours of those of these pixels the filter keeps, so that
\* it has at most ceil(width * height / 4) entries, however many of the
\* three pixels in between the filter would keep.
C23_EveryFourthPixel ==
    (caller = "extract" /\ canvas[1] > 0 /\ canvas[2] > 0) =>
        LET stops == { p \in EveryFourth : PassesFilter(p) }
        IN  /\ Len(pixels) <= (canvas[1] * canvas[2] + 3) \div 4
            /\ 4 * Cardinality(EveryFourth) < canvas[1] * canvas[2] + 4
            /\ Len(pixels) = Cardinality(stops)
            /\ \A p \in stops :
                  pixels[Cardinality({ q \in stops : q < p }) + 1] = ColourAt(p)

\* Pixels 0 and 4 of a 200x2 buffer are kept and differ; pixels 1, 2 and 3,
\* which the filter would keep, are not in the sample.
C23_Witness ==
    /\ caller = "extract" /\ canvas = <<200, 2>>
    /\ Len(pixels) = 2
    /\ pixels[1] = ColourAt(0) /\ pixels[2] = ColourAt(4)
    /\ pixels[1] # pixels[2]
    /\ \A p \in 1..3 : PassesFilter(p) /\ ColourAt(p) # pixels[1] /\ ColourAt(p) # pixels[2]

\* --------------------------------------------------------------------- C24
\* C24: in the App component, whatever the order of the remove events, the
\* add events and the renders, the palette has at least 2 and at most 10
\* colours after a remove or an add event is handled.
C24_SizeWithinTwoAndTen ==
    mounted = "app" /\ last.op \in {"handleRemove", "handleAddColor"} =>
        2 <= Len(colors) /\ Len(colors) <= ColumnLimit

\* --------------------------------------------------------------------- C25
\* C25: a step of regeneratePalette (usePalette) leaves the number of
\* columns, the id of each column and the order of the columns as they
\* were; every column that was unlocked is unlocked after it and has a hex
\* that is a colour; and when every column was locked the columns are the
\* same after it.
C25_RegenerateKeepsStructure ==
    [][last'.op = "regeneratePalette" =>
         /\ Len(columns') = Len(columns)
         /\ \A i \in 1..Len(columns) :
               /\ columns'[i].id = columns[i].id
               /\ ~columns[i].locked =>
                     ~columns'[i].locked /\ columns'[i].hex \in Hexes
         /\ (\A i \in 1..Len(columns) : columns[i].locked) => columns' = columns]_vars

\* regeneratePalette gave new colours to the unlocked columns before and
\* after a locked one.
C25_Witness ==
    /\ last.op = "regeneratePalette" /\ last.changed
    /\ Len(columns) >= 3
    /\ \E i \in 2..(Len(columns) - 1) :
          /\ columns[i].locked
          /\ ~columns[i - 1].locked /\ ~columns[i + 1].locked
          /\ columns[i - 1].id < columns[i].id

\* ---------------------------------------------------------------- words of C26
\* The list s without its entry at position p (from 1).
Without(s, p) == [i \in 1..(Len(s) - 1) |-> IF i < p THEN s[i] ELSE s[i + 1]]

\* `new` is `old` with the entry of index fromIndex moved to index toIndex
\* (both from 0): the same length, the moved entry at toIndex, and the other
\* entries in the order they had.
IsMoveOf(old, new, fromIndex, toIndex) ==
    /\ Len(new) = Len(old)
    /\ new[toIndex + 1] = old[fromIndex + 1]
    /\ Without(new, toIndex + 1) = Without(old, fromIndex + 1)

\* --------------------------------------------------------------------- C26
\* C26: for indices fromIndex and toIndex in 0..length-1, a step of
\* reorderColumns (usePalette) or of handleMove (App) gives a permutation of
\* the columns: as many columns, the column that was at fromIndex now at
\* toIndex, and the other columns, the same records, in the order they had.
C26_MoveIsPermutation ==
    [][/\ last'.op = "reorderColumns" =>
             IsMoveOf(columns, columns', last'.fromIndex, last'.toIndex)
       /\ last'.op = "handleMove" =>
             IsMoveOf(colors, colors', last'.fromIndex, last'.toIndex)]_vars

\* The first of five colours of App was moved to the end.
C26_Witness ==
    /\ last.op = "handleMove" /\ last.changed
    /\ last.fromIndex = 0 /\ last.toIndex = Len(colors) - 1
    /\ Len(colors) = DefaultCount
    /\ colors[Len(colors)].id < colors[1].id
    /\ \A i \in 1..(Len(colors) - 2) : colors[i].id < colors[i + 1].id

\* ---------------------------------------------------------------- words of C27
\* The calls of onImportImage made for change event c.
ImportsOf(c) == { i \in 1..Len(imports) : imports[i].call = c }

\* --------------------------------------------------------------------- C27
\* C27: for every change event of the file input, onImportImage is called
\* at most once, and it has been called, with the colours the promise was
\* resolved with, exactly when handleImageUpload is past its await on a
\* resolved promise, which it gets past once the promise is resolved; it is
\* not called when no file was selected, where nothing is reported either,
\* nor when the promise was rejected, where the failure is reported once and
\* the step that reports it changes neither the palette nor the calls of
\* onImportImage.
C27_ImportOnlyOnSuccess ==
    /\ [](\A c \in Calls :
            /\ Cardinality(ImportsOf(c)) <= 1
            /\ ImportsOf(c) # {} <=> upload[c] = "resumed" /\ promise[c] = "resolved"
            /\ \A i \in ImportsOf(c) : imports[i].colors = outcome[c]
            /\ alerts[c] = (IF upload[c] = "resumed" /\ promise[c] = "rejected"
                            THEN 1 ELSE 0)
            /\ upload[c] = "returned" => promise[c] = "none")
    /\ [][alerts' # alerts =>
             imports' = imports /\ columns' = columns /\ colors' = colors]_vars
    /\ \A c \in Calls :
          (upload[c] = "awaiting" /\ promise[c] = "resolved") ~> (ImportsOf(c) # {})

\* Two change events: the second one, on an image, gave its colours to
\* onImportImage before the first one, on a file that is no image, reported
\* its failure.
C27_Witness ==
    /\ upload[1] = "resumed" /\ promise[1] = "rejected" /\ alerts[1] = 1
    /\ upload[2] = "resumed" /\ promise[2] = "resolved" /\ alerts[2] = 0
    /\ Len(imports) = 1
    /\ imports[1].call = 2
    /\ Len(imports[1].colors) = DefaultCount

\* ---------------------------------------------------------------- words of C28
RatEqual(x, y) == x.num * y.den = y.num * x.den

\* --------------------------------------------------------------------- C28
\* C28: for every colour and every hue shift of the slider, the hue that
\* adjustColor passes to hslToHex is at least 0 and below 360 and hslToHex
\* takes one of its six branches; with the three shifts at 0, the hue, the
\* saturation and the lightness passed are those of hexToHSL of the colour.
C28_HueWithinTurn ==
    adjStep = "returned" =>
        /\ 0 <= passed.h.num /\ passed.h.num < FullTurn * passed.h.den
        /\ sector \in 0..5
        /\ (adjArgs.hueShift = 0 /\ adjArgs.saturationShift = 0
              /\ adjArgs.brightnessShift = 0) =>
               /\ RatEqual(passed.h, hexToHSL(adjArgs.hex).h)
               /\ RatEqual(passed.s, hexToHSL(adjArgs.hex).s)
               /\ RatEqual(passed.l, hexToHSL(adjArgs.hex).l)

\* ---------------------------------------------------------------- words of C29
InCall == pc \in {"seed", "iterate"}
NoCentroidIsInputObject == \A i \in 1..Len(refs) : refs[i] = 0

\* --------------------------------------------------------------------- C29
\* C29: kMeansClustering leaves its input as it was: no step of the call
\* changes the pixel list (its length, the values of its triples), and no
\* centroid, during the call or returned, is held by the array object of an
\* input pixel, whatever k and maxIterations are.
C29_InputUntouched ==
    /\ [][InCall => pixels' = pixels]_vars
    /\ [](Len(refs) = Len(centroids) /\ NoCentroidIsInputObject)

\* A direct call has returned after a pass in which a centroid seeded from a
\* pixel kept its array because its cluster was empty.
C29_Witness ==
    /\ pc = "done" /\ caller = "direct"
    /\ Len(pixels) >= 2 /\ Len(centroids) = k
    /\ \E i \in 1..Len(centroids) :
          /\ i <= Cardinality(usedIndices)
          /\ Len(clusters[i]) = 0
          /\ \E j \in 1..Len(pixels) : centroids[i] = CopyOf(pixels[j])
    /\ NoCentroidIsInputObject

\* ---------------------------------------------------------------- words of C30
\* The handlers the last event invoked, listener by listener, and whether
\* its default was prevented.
InvokedBy(i) == keyEvent.calls[i].invoked
Invocations(name) ==
    Cardinality({ i \in 1..Len(keyEvent.calls) : InvokedBy(i) = <<name>> })
NothingInvoked == \A i \in 1..Len(keyEvent.calls) : InvokedBy(i) = <<>>
DefaultPrevented == \E i \in 1..Len(keyEvent.calls) : keyEvent.calls[i].prevented
Typing == keyEvent.target \in {"input", "textarea"}
Pressed == keyEvent.target # "none"

\* --------------------------------------------------------------------- C30
\* C30: a keydown event on an input or a textarea invokes no handler and its
\* default is not prevented; on any other target, while the hook is mounted,
\* the handler registered under the lower-cased key, if there is one, is
\* invoked exactly once, no other handler is invoked, and the default is
\* prevented; after the cleanup no keydown event invokes a handler.
C30_ShortcutsOutsideInputs ==
    Pressed =>
        /\ Typing => NothingInvoked /\ ~DefaultPrevented
        /\ (~Typing /\ keyEvent.hook = "mounted"
               /\ toLowerCase(keyEvent.key) \in keyEvent.shortcuts) =>
              /\ Invocations(toLowerCase(keyEvent.key)) = 1
              /\ \A i \in 1..Len(keyEvent.calls) :
                    InvokedBy(i) \in {<<>>, <<toLowerCase(keyEvent.key)>>}
              /\ DefaultPrevented
        /\ keyEvent.hook = "cleaned" => NothingInvoked

\* After a second render of the hook, "C" was pressed on the page and the
\* handler of "c" ran; then the hook was cleaned up.
C30_Witness ==
    /\ hook = "cleaned" /\ effects = 2
    /\ keyEvent.hook = "mounted" /\ keyEvent.target = "body" /\ keyEvent.key = "C"
    /\ Invocations("c") = 1 /\ DefaultPrevented

=============================================================================
